---------------------------- MODULE Spec2Model ----------------------------
(***************************************************************************)
(* Model of the incremental test-file updater of imroysakshi/test-automation*)
(* (src/ai/testFileParser.ts, src/ai/generateTestScript.ts and              *)
(* src/scripts/syncFromCodebase.ts).                                        *)
(*                                                                          *)
(* TEXT.  A JavaScript string is modelled as a sequence of tokens; every    *)
(* token is the TLA+ string of the characters it stands for, so the text a  *)
(* sequence denotes is the concatenation of its tokens.  The structural     *)
(* tokens are the literals the code searches for ("test.describe(", the two *)
(* manual-zone markers, "//", "import", the code fence) and the single      *)
(* characters it inspects (parentheses, braces, quotes, ".", blank, line    *)
(* feed).  Word tokens are runs of \w characters chosen so that no          *)
(* concatenation of tokens creates an occurrence of a searched literal that *)
(* is not a token itself; on such texts a search for a literal in the       *)
(* JavaScript string is a search for the token in the sequence.  Offsets    *)
(* are 0-based token offsets and ranges are half-open, as in the code.      *)
(***************************************************************************)
EXTENDS Integers, Sequences, FiniteSets, TLC

VARIABLES
    pc,                   \* position of the operation in progress
    feature,              \* createTestFile: feature (mapCodeToTest)
    testName,             \* createTestFile: testName (mapCodeToTest)
    existingTestContent,  \* createTestFile: text of the existing test file
    manualZoneContent,    \* createTestFile: extractManualZone(existing)
    parsedFile,           \* createTestFile: parseTestFile(existing)
    matchingBlock,        \* createTestFile: the block selected for splicing
    useIncrementalUpdate, \* createTestFile: incremental-block mode chosen
    llmOutput,            \* text returned by LLMClient.generate
    updatedBlock,         \* createTestFile: result of generateTestBlock
    regenerated,          \* createTestFile: testScript before the guard
    testScript,           \* createTestFile: text about to be written
    written,              \* content of the test file on disk
    files,                \* main: getChangedFiles(), one entry per target
    fileIndex,            \* main: position of the for loop in files
    mainPc,               \* main: position of the batch run
    events,               \* generator calls and file writes, in order
    exitCode,             \* exit code of the process, -1 while it runs
    scanStart,            \* findMatchingClosingBrace: startIndex
    scanEnd,              \* findMatchingClosingBrace: the offset returned
    describeTitle,        \* parseTestFile: title of a block
    featureLabel,         \* parseTestFile: extractFeatureName(title)
    testLabel,            \* parseTestFile: extractTestName(title)
    loopPc,               \* parseTestFile: position of the scan loop
    loopCursor,           \* parseTestFile: i, as the offset of the next token
    loopInToken,          \* parseTestFile: i is one character into the
                          \* occurrence that ends at loopCursor
    loopMatch,            \* parseTestFile: describeMatch
    loopBlocks,           \* parseTestFile: testBlocks
    scanIndex,            \* findMatchingClosingBrace: i
    scanParens,           \* findMatchingClosingBrace: parenDepth
    scanSawParen,         \* findMatchingClosingBrace: foundOpeningParen
    scanBraces            \* findMatchingClosingBrace: braceDepth

fileVars == << pc, feature, testName, existingTestContent, manualZoneContent,
               parsedFile, matchingBlock, useIncrementalUpdate, llmOutput,
               updatedBlock, regenerated, testScript, written >>

mainVars == << files, fileIndex, mainPc, events, exitCode >>

scanVars == << scanStart, scanEnd >>

labelVars == << describeTitle, featureLabel, testLabel >>

loopVars == << loopPc, loopCursor, loopInToken, loopMatch, loopBlocks,
               scanIndex, scanParens, scanSawParen, scanBraces >>

vars == << fileVars, mainVars, scanVars, labelVars, loopVars >>

\* No step-by-step run of parseTestFile is in progress.
LoopIdle ==
    /\ loopPc = "idle"
    /\ loopCursor = 0
    /\ loopInToken = FALSE
    /\ loopMatch = -1
    /\ loopBlocks = << >>
    /\ scanIndex = 0
    /\ scanParens = 0
    /\ scanSawParen = FALSE
    /\ scanBraces = 0

\* No call of the scanner is in progress.
ScanIdle ==
    /\ scanStart = -1
    /\ scanEnd = -1

\* The batch run of main is not in progress.
MainIdle ==
    /\ files = << >>
    /\ fileIndex = 0
    /\ mainPc = "idle"
    /\ events = << >>
    /\ exitCode = -1

----------------------------------------------------------------------------
(* Bounds of the model.                                                    *)

MaxLen == 5        \* longest enumerated input of the parser
MaxGroups == 2     \* most groups in a composed input of the parser
MaxBlocks == 2     \* most blocks in an input of the matcher
MaxSpliceLen == 5  \* longest original text of the splicer
MaxNewLen == 2     \* longest replacement block of the splicer
MaxZoneLen == 4    \* longest input of extractManualZone
MaxRegenLen == 3   \* longest regenerated text given to the guard
MaxLlmLen == 2     \* longest enumerated answer of the generator
MaxFiles == 3      \* most changed files in one batch run of main
MaxTitleLen == 3   \* longest enumerated block title
MaxAnswerLen == 4  \* longest enumerated answer given to generateTestBlock
MaxReplLen == 5    \* longest enumerated replacement of a parsed block
MaxLoopLen == 4    \* longest enumerated text of the stepwise parser run

----------------------------------------------------------------------------
(* Tokens.                                                                 *)

DESCRIBE == "test.describe("
MANUAL_START == "/* <MANUAL_ZONE> */"
MANUAL_END == "/* </MANUAL_ZONE> */"
TS_NOCHECK == "// @ts-nocheck"
LINE_COMMENT == "//"
IMPORT == "import"
\* The code fence (three backticks); TLA+ strings cannot hold a backtick.
FENCE == "<fence>"
NL == "\n"
SP == " "

\* JavaScript undefined / null for an optional string, and the empty string.
undefined == << "undefined" >>
null == << "null" >>
EmptyString == << >>

\* No title is being labelled.
LabelIdle ==
    /\ describeTitle = undefined
    /\ featureLabel = undefined
    /\ testLabel = undefined

\* /\s/ and String.prototype.trim: the white-space tokens.
IsSpace(c) == c \in {SP, NL}

\* Tokens made of \w characters only, with their lower-case forms.
LowerWords == {"order", "user", "auth", "login", "logout", "payment",
               "method", "management", "service", "search", "update",
               "typescript", "javascript", "import", "x", "z"}
UpperWords == {"Order", "User", "Auth", "Login", "Method", "Management",
               "Service", "Search", "X", "Z"}
WordTokens == LowerWords \cup UpperWords

IsWord(c) == c \in WordTokens

\* String.prototype.toLowerCase on one token.
toLowerToken(c) ==
    CASE c = "Order" -> "order"
      [] c = "User" -> "user"
      [] c = "Auth" -> "auth"
      [] c = "Login" -> "login"
      [] c = "Method" -> "method"
      [] c = "Management" -> "management"
      [] c = "Service" -> "service"
      [] c = "Search" -> "search"
      [] c = "X" -> "x"
      [] c = "Z" -> "z"
      [] c = MANUAL_START -> "/* <manual_zone> */"
      [] c = MANUAL_END -> "/* </manual_zone> */"
      [] OTHER -> c

toLowerCase(s) == [k \in 1..Len(s) |-> toLowerToken(s[k])]

\* The three quote characters of the title pattern; "<backtick>" stands for
\* the backtick, which a TLA+ string cannot hold.
Quotes == {"'", "\"", "<backtick>"}

----------------------------------------------------------------------------
(* JavaScript string primitives on token sequences.                        *)

\* s.substring(a, b) for 0 <= a <= b <= s.length
substring(s, a, b) == SubSeq(s, a + 1, b)

\* s.substring(a)
substringFrom(s, a) == SubSeq(s, a + 1, Len(s))

\* s[i], which is undefined past the end
charAt(s, i) == IF i >= 0 /\ i < Len(s) THEN s[i + 1] ELSE "undefined"

\* s.indexOf(tok, from) for a one-token literal
indexOf(s, tok, from) ==
    LET hits == {k \in from..(Len(s) - 1) : s[k + 1] = tok}
    IN  IF hits = {} THEN -1
        ELSE CHOOSE k \in hits : \A j \in hits : k <= j

\* s.includes(needle) for a literal of one or more tokens
includes(s, needle) ==
    \E k \in 0..(Len(s) - Len(needle)) :
        substring(s, k, k + Len(needle)) = needle

\* (s.match(/c/g) || []).length
countOf(s, c) == Cardinality({k \in 1..Len(s) : s[k] = c})

trimStart(s) ==
    LET ks == {k \in 1..Len(s) : ~IsSpace(s[k])}
    IN  IF ks = {} THEN << >>
        ELSE SubSeq(s, CHOOSE k \in ks : \A j \in ks : k <= j, Len(s))

trimEnd(s) ==
    LET ks == {k \in 1..Len(s) : ~IsSpace(s[k])}
    IN  IF ks = {} THEN << >>
        ELSE SubSeq(s, 1, CHOOSE k \in ks : \A j \in ks : k >= j)

trim(s) == trimStart(trimEnd(s))

\* All token sequences over alphabet A of length at most n.
SeqsUpTo(A, n) == UNION {[1..k -> A] : k \in 0..n}

RECURSIVE Concat(_)
Concat(ss) == IF ss = << >> THEN << >> ELSE Head(ss) \o Concat(Tail(ss))

----------------------------------------------------------------------------
(* src/ai/testFileParser.ts: the block scanner.                            *)

\* while (i < content.length && /\s/.test(content[i])) i++
RECURSIVE skipWhitespace(_, _)
skipWhitespace(content, i) ==
    IF i < Len(content) /\ IsSpace(content[i + 1])
    THEN skipWhitespace(content, i + 1)
    ELSE i

\* First loop of findMatchingClosingBrace: the offset just past the body's
\* opening brace, or -1 when the text ends first.  DESCRIBE ends with "(".
\* After a closing ")" that is not followed by "{" the loop goes on one
\* character: of a DESCRIBE token there, the final "(" is still read.
RECURSIVE skipToOpeningBrace(_, _, _, _)
skipToOpeningBrace(content, i, parenDepth, foundOpeningParen) ==
    IF i >= Len(content) THEN -1
    ELSE IF content[i + 1] \in {"(", DESCRIBE}
    THEN skipToOpeningBrace(content, i + 1, parenDepth + 1, TRUE)
    ELSE IF content[i + 1] = ")"
    THEN IF parenDepth - 1 = 0 /\ foundOpeningParen
         THEN LET j == skipWhitespace(content, i + 1)
              IN  IF charAt(content, j) = "{"
                  THEN j + 1
                  ELSE skipToOpeningBrace(content, j + 1,
                           IF charAt(content, j) = DESCRIBE THEN 1 ELSE 0,
                           foundOpeningParen)
         ELSE skipToOpeningBrace(content, i + 1, parenDepth - 1,
                                 foundOpeningParen)
    ELSE skipToOpeningBrace(content, i + 1, parenDepth, foundOpeningParen)

\* Mutant: the offset of the closing brace itself is returned.
RECURSIVE findClosingBrace_AtBrace(_, _, _)
findClosingBrace_AtBrace(content, i, braceDepth) ==
    IF i >= Len(content) THEN -1
    ELSE IF content[i + 1] = "{"
    THEN findClosingBrace_AtBrace(content, i + 1, braceDepth + 1)
    ELSE IF content[i + 1] = "}"
    THEN IF braceDepth - 1 = 0 THEN i
         ELSE findClosingBrace_AtBrace(content, i + 1, braceDepth - 1)
    ELSE findClosingBrace_AtBrace(content, i + 1, braceDepth)

\* Second loop of findMatchingClosingBrace: one past the brace that brings
\* braceDepth back to 0, or -1.
RECURSIVE findClosingBrace(_, _, _)
findClosingBrace(content, i, braceDepth) ==
    IF i >= Len(content) THEN -1
    ELSE IF content[i + 1] = "{"
    THEN findClosingBrace(content, i + 1, braceDepth + 1)
    ELSE IF content[i + 1] = "}"
    THEN IF braceDepth - 1 = 0 THEN i + 1
         ELSE findClosingBrace(content, i + 1, braceDepth - 1)
    ELSE findClosingBrace(content, i + 1, braceDepth)

findMatchingClosingBrace(content, startIndex) ==
    LET i == skipToOpeningBrace(content, startIndex, 0, FALSE)
    IN  IF i = -1 THEN -1 ELSE findClosingBrace(content, i, 1)

----------------------------------------------------------------------------
(* src/ai/testFileParser.ts: titles and labels.                            *)

\* The maximal run of \w tokens of s that starts at offset i (matches \w+).
RECURSIVE wordRunEnd(_, _)
wordRunEnd(s, i) ==
    IF i < Len(s) /\ IsWord(s[i + 1]) THEN wordRunEnd(s, i + 1) ELSE i

\* blockContent.match(/test\.describe\s*\(\s*[quote]([^quote]+)[quote]/): the
\* match at the DESCRIBE token at offset p, as << found, title >>.
titleMatchAt(blockContent, p) ==
    LET q == skipWhitespace(blockContent, p + 1)
        closers == {r \in (q + 1)..(Len(blockContent) - 1) :
                       blockContent[r + 1] \in Quotes}
        r == CHOOSE r \in closers : \A r2 \in closers : r <= r2
    IN  IF charAt(blockContent, p) = DESCRIBE
           /\ charAt(blockContent, q) \in Quotes
           /\ closers # {}
           /\ r > q + 1
        THEN << TRUE, substring(blockContent, q + 1, r) >>
        ELSE << FALSE, undefined >>

\* titleMatch ? titleMatch[1] : undefined  (the leftmost match)
blockTitle(blockContent) ==
    LET ps == {p \in 0..(Len(blockContent) - 1) :
                  titleMatchAt(blockContent, p)[1]}
    IN  IF ps = {} THEN undefined
        ELSE titleMatchAt(blockContent,
                          CHOOSE p \in ps : \A p2 \in ps : p <= p2)[2]

\* lowerTitle.includes(keyword) for a keyword that is a word token
includesWord(title, keyword) ==
    \E k \in 1..Len(title) : toLowerToken(title[k]) = keyword

extractFeatureName(title) ==
    IF title = undefined \/ title = EmptyString THEN undefined
    ELSE IF includesWord(title, "order") THEN << "order" >>
    ELSE IF includesWord(title, "user") THEN << "user" >>
    ELSE IF includesWord(title, "auth") \/ includesWord(title, "login")
            \/ includesWord(title, "logout") THEN << "auth" >>
    ELSE IF includesWord(title, "payment") THEN << "payment" >>
    ELSE LET e == wordRunEnd(title, 0)     \* title.match(/^(\w+)\s+/)
         IN  IF e > 0 /\ IsSpace(charAt(title, e))
             THEN toLowerCase(substring(title, 0, e))
             ELSE undefined

\* title.match(/(\w+)\s+method/i): start offsets of word runs followed by
\* white space and then "method" in either case.
methodMatches(title) ==
    {s \in 0..(Len(title) - 1) :
        LET e == wordRunEnd(title, s)
            m == skipWhitespace(title, e)
        IN  e > s /\ m > e /\ toLowerToken(charAt(title, m)) = "method"}

extractTestName(title) ==
    IF title = undefined \/ title = EmptyString THEN undefined
    ELSE IF methodMatches(title) # {}
    THEN LET s == CHOOSE s \in methodMatches(title) :
                      \A s2 \in methodMatches(title) : s <= s2
         IN  toLowerCase(substring(title, s, wordRunEnd(title, s)))
    ELSE LET e == wordRunEnd(title, 0)     \* title.match(/^(\w+)/)
         IN  IF e > 0 THEN toLowerCase(substring(title, 0, e))
             ELSE undefined

----------------------------------------------------------------------------
(* src/ai/testFileParser.ts: the file partitioner.                         *)

\* Mutant: the recorded content stops one position short of blockEnd.
TestBlock_ShortContent(content, blockStart, blockEnd) ==
    LET blockContent == substring(content, blockStart, blockEnd - 1)
    IN  [content |-> blockContent,
         startIndex |-> blockStart,
         endIndex |-> blockEnd,
         featureName |-> extractFeatureName(blockTitle(blockContent)),
         testName |-> extractTestName(blockTitle(blockContent))]

TestBlock(content, blockStart, blockEnd) ==
    LET blockContent == substring(content, blockStart, blockEnd)
    IN  [content |-> blockContent,
         startIndex |-> blockStart,
         endIndex |-> blockEnd,
         featureName |-> extractFeatureName(blockTitle(blockContent)),
         testName |-> extractTestName(blockTitle(blockContent))]

\* braceDepth of the text before describeMatch
braceDepthBefore(content, describeMatch) ==
    countOf(substring(content, 0, describeMatch), "{")
        - countOf(substring(content, 0, describeMatch), "}")

\* Mutant: the scan ends at the first occurrence whose end is not found.
RECURSIVE scanBlocks_StopOnFailure(_, _, _)
scanBlocks_StopOnFailure(content, i, testBlocks) ==
    IF i >= Len(content) THEN testBlocks
    ELSE LET describeMatch == indexOf(content, DESCRIBE, i)
         IN  IF describeMatch = -1 THEN testBlocks
             ELSE IF braceDepthBefore(content, describeMatch) = 0
             THEN LET blockEnd == findMatchingClosingBrace(content,
                                                           describeMatch)
                  IN  IF blockEnd > describeMatch
                      THEN scanBlocks_StopOnFailure(content, blockEnd,
                               Append(testBlocks,
                                      TestBlock(content, describeMatch,
                                                blockEnd)))
                      ELSE testBlocks
             ELSE scanBlocks_StopOnFailure(content, describeMatch + 1,
                                           testBlocks)

\* The scan loop of parseTestFile from cursor i with the blocks found so far.
RECURSIVE scanBlocks(_, _, _)
scanBlocks(content, i, testBlocks) ==
    IF i >= Len(content) THEN testBlocks
    ELSE LET describeMatch == indexOf(content, DESCRIBE, i)
         IN  IF describeMatch = -1 THEN testBlocks
             ELSE IF braceDepthBefore(content, describeMatch) = 0
             THEN LET blockEnd == findMatchingClosingBrace(content,
                                                           describeMatch)
                  IN  IF blockEnd > describeMatch
                      THEN scanBlocks(content, blockEnd,
                               Append(testBlocks,
                                      TestBlock(content, describeMatch,
                                                blockEnd)))
                      ELSE scanBlocks(content, describeMatch + 1, testBlocks)
             ELSE scanBlocks(content, describeMatch + 1, testBlocks)

\* Mutant: the text after the last block is not kept as footer.
parseTestFile_NoFooter(content) ==
    LET testBlocks == scanBlocks(content, 0, << >>)
        n == Len(testBlocks)
        headerEnd == IF n > 0 THEN testBlocks[1].startIndex ELSE 0
        header == IF n > 0 /\ headerEnd > 0
                  THEN substring(content, 0, headerEnd) ELSE EmptyString
    IN  [header |-> trim(header), testBlocks |-> testBlocks,
         footer |-> EmptyString]

parseTestFile(content) ==
    LET testBlocks == scanBlocks(content, 0, << >>)
        n == Len(testBlocks)
        headerEnd == IF n > 0 THEN testBlocks[1].startIndex ELSE 0
        footerStart == IF n > 0 THEN testBlocks[n].endIndex ELSE Len(content)
        header == IF n > 0 /\ headerEnd > 0
                  THEN substring(content, 0, headerEnd) ELSE EmptyString
        footer == IF n > 0 /\ footerStart < Len(content)
                  THEN substringFrom(content, footerStart) ELSE EmptyString
    IN  [header |-> trim(header), testBlocks |-> testBlocks,
         footer |-> trim(footer)]

----------------------------------------------------------------------------
(* src/ai/testFileParser.ts: the block matcher.                            *)

\* The value of a TestBlock | undefined variable that holds no block.
undefinedBlock ==
    [content |-> EmptyString, startIndex |-> -1, endIndex |-> -1,
     featureName |-> undefined, testName |-> undefined]

\* block.featureName === featureLower && block.testName === testNameLower
exactMatch(block, featureLower, testNameLower) ==
    block.featureName = featureLower /\ block.testName = testNameLower

\* block.testName === testNameLower
testNameMatch(block, testNameLower) == block.testName = testNameLower

\* block.featureName === featureLower
featureMatch(block, featureLower) == block.featureName = featureLower

\* Mutant: the test on the name followed by "." is missing.
contentMatch_NoDot(block, testNameLower) ==
    LET contentLower == toLowerCase(block.content)
    IN  \/ includes(contentLower, testNameLower \o << "(" >>)
        \/ includes(contentLower, << "'" >> \o testNameLower \o << "'" >>)
        \/ includes(contentLower, << "\"" >> \o testNameLower \o << "\"" >>)

\* The four includes() tests on block.content.toLowerCase()
contentMatch(block, testNameLower) ==
    LET contentLower == toLowerCase(block.content)
    IN  \/ includes(contentLower, testNameLower \o << "(" >>)
        \/ includes(contentLower, testNameLower \o << "." >>)
        \/ includes(contentLower, << "'" >> \o testNameLower \o << "'" >>)
        \/ includes(contentLower, << "\"" >> \o testNameLower \o << "\"" >>)

\* for (const block of testBlocks) if (hit) return block: the first hit.
firstOf(testBlocks, hits) ==
    testBlocks[CHOOSE k \in hits : \A j \in hits : k <= j]

\* Mutant: with no rule satisfied the first block of any file is returned.
findMatchingTestBlock_GuessFirst(parsed, feat, name) ==
    LET featureLower == toLowerCase(feat)
        testNameLower == toLowerCase(name)
        blocks == parsed.testBlocks
        hits == {k \in 1..Len(blocks) :
                    \/ testNameMatch(blocks[k], testNameLower)
                    \/ featureMatch(blocks[k], featureLower)
                    \/ contentMatch(blocks[k], testNameLower)}
        exact == {k \in 1..Len(blocks) :
                     exactMatch(blocks[k], featureLower, testNameLower)}
        byTestName == {k \in 1..Len(blocks) :
                          testNameMatch(blocks[k], testNameLower)}
        byFeature == {k \in 1..Len(blocks) :
                         featureMatch(blocks[k], featureLower)}
    IN  IF exact # {} THEN firstOf(blocks, exact)
        ELSE IF byTestName # {} THEN firstOf(blocks, byTestName)
        ELSE IF byFeature # {} THEN firstOf(blocks, byFeature)
        ELSE IF hits # {} THEN firstOf(blocks, hits)
        ELSE IF Len(blocks) >= 1 THEN blocks[1]
        ELSE undefinedBlock

\* Mutant: the feature rule is tried before the exact and test-name rules.
findMatchingTestBlock_FeatureFirst(parsed, feat, name) ==
    LET featureLower == toLowerCase(feat)
        testNameLower == toLowerCase(name)
        blocks == parsed.testBlocks
        exact == {k \in 1..Len(blocks) :
                     exactMatch(blocks[k], featureLower, testNameLower)}
        byTestName == {k \in 1..Len(blocks) :
                          testNameMatch(blocks[k], testNameLower)}
        byFeature == {k \in 1..Len(blocks) :
                         featureMatch(blocks[k], featureLower)}
        byContent == {k \in 1..Len(blocks) :
                         contentMatch(blocks[k], testNameLower)}
    IN  IF byFeature # {} THEN firstOf(blocks, byFeature)
        ELSE IF exact # {} THEN firstOf(blocks, exact)
        ELSE IF byTestName # {} THEN firstOf(blocks, byTestName)
        ELSE IF byContent # {} THEN firstOf(blocks, byContent)
        ELSE IF Len(blocks) = 1 THEN blocks[1]
        ELSE undefinedBlock

\* Mutant: the content heuristic is tried before the feature rule.
findMatchingTestBlock_ContentFirst(parsed, feat, name) ==
    LET featureLower == toLowerCase(feat)
        testNameLower == toLowerCase(name)
        blocks == parsed.testBlocks
        exact == {k \in 1..Len(blocks) :
                     exactMatch(blocks[k], featureLower, testNameLower)}
        byTestName == {k \in 1..Len(blocks) :
                          testNameMatch(blocks[k], testNameLower)}
        byFeature == {k \in 1..Len(blocks) :
                         featureMatch(blocks[k], featureLower)}
        byContent == {k \in 1..Len(blocks) :
                         contentMatch(blocks[k], testNameLower)}
    IN  IF exact # {} THEN firstOf(blocks, exact)
        ELSE IF byTestName # {} THEN firstOf(blocks, byTestName)
        ELSE IF byContent # {} THEN firstOf(blocks, byContent)
        ELSE IF byFeature # {} THEN firstOf(blocks, byFeature)
        ELSE IF Len(blocks) = 1 THEN blocks[1]
        ELSE undefinedBlock

\* Mutant: the target is compared as given, without toLowerCase.
findMatchingTestBlock_CaseSensitive(parsed, feat, name) ==
    LET blocks == parsed.testBlocks
        exact == {k \in 1..Len(blocks) : exactMatch(blocks[k], feat, name)}
        byTestName == {k \in 1..Len(blocks) : testNameMatch(blocks[k], name)}
        byFeature == {k \in 1..Len(blocks) : featureMatch(blocks[k], feat)}
        byContent == {k \in 1..Len(blocks) :
                         \/ includes(blocks[k].content, name \o << "(" >>)
                         \/ includes(blocks[k].content, name \o << "." >>)
                         \/ includes(blocks[k].content,
                                     << "'" >> \o name \o << "'" >>)
                         \/ includes(blocks[k].content,
                                     << "\"" >> \o name \o << "\"" >>)}
    IN  IF exact # {} THEN firstOf(blocks, exact)
        ELSE IF byTestName # {} THEN firstOf(blocks, byTestName)
        ELSE IF byFeature # {} THEN firstOf(blocks, byFeature)
        ELSE IF byContent # {} THEN firstOf(blocks, byContent)
        ELSE IF Len(blocks) = 1 THEN blocks[1]
        ELSE undefinedBlock

\* Mutant: the single-block fallback is missing.
findMatchingTestBlock_NoFallback(parsed, feat, name) ==
    LET featureLower == toLowerCase(feat)
        testNameLower == toLowerCase(name)
        blocks == parsed.testBlocks
        exact == {k \in 1..Len(blocks) :
                     exactMatch(blocks[k], featureLower, testNameLower)}
        byTestName == {k \in 1..Len(blocks) :
                          testNameMatch(blocks[k], testNameLower)}
        byFeature == {k \in 1..Len(blocks) :
                         featureMatch(blocks[k], featureLower)}
        byContent == {k \in 1..Len(blocks) :
                         contentMatch(blocks[k], testNameLower)}
    IN  IF exact # {} THEN firstOf(blocks, exact)
        ELSE IF byTestName # {} THEN firstOf(blocks, byTestName)
        ELSE IF byFeature # {} THEN firstOf(blocks, byFeature)
        ELSE IF byContent # {} THEN firstOf(blocks, byContent)
        ELSE undefinedBlock

findMatchingTestBlock(parsed, feat, name) ==
    LET featureLower == toLowerCase(feat)
        testNameLower == toLowerCase(name)
        blocks == parsed.testBlocks
        exact == {k \in 1..Len(blocks) :
                     exactMatch(blocks[k], featureLower, testNameLower)}
        byTestName == {k \in 1..Len(blocks) :
                          testNameMatch(blocks[k], testNameLower)}
        byFeature == {k \in 1..Len(blocks) :
                         featureMatch(blocks[k], featureLower)}
        byContent == {k \in 1..Len(blocks) :
                         contentMatch(blocks[k], testNameLower)}
    IN  IF exact # {} THEN firstOf(blocks, exact)
        ELSE IF byTestName # {} THEN firstOf(blocks, byTestName)
        ELSE IF byFeature # {} THEN firstOf(blocks, byFeature)
        ELSE IF byContent # {} THEN firstOf(blocks, byContent)
        ELSE IF Len(blocks) = 1 THEN blocks[1]
        ELSE undefinedBlock

----------------------------------------------------------------------------
(* src/ai/testFileParser.ts: the block splicer.                            *)

\* Mutant: the text before the block is trimmed at both ends.
replaceTestBlock_TrimBoth(originalContent, targetBlock, newBlockContent) ==
    LET before == substring(originalContent, 0, targetBlock.startIndex)
        after == substringFrom(originalContent, targetBlock.endIndex)
    IN  trim(before) \o << NL, NL >> \o newBlockContent \o << NL, NL >>
            \o trimStart(after)

replaceTestBlock(originalContent, targetBlock, newBlockContent) ==
    LET before == substring(originalContent, 0, targetBlock.startIndex)
        after == substringFrom(originalContent, targetBlock.endIndex)
    IN  trimEnd(before) \o << NL, NL >> \o newBlockContent \o << NL, NL >>
            \o trimStart(after)

----------------------------------------------------------------------------
(* src/scripts/syncFromCodebase.ts: the manual-zone guard.                 *)

extractManualZone(content) ==
    LET startIndex == indexOf(content, MANUAL_START, 0)
        endIndex == indexOf(content, MANUAL_END, 0)
    IN  IF startIndex # -1 /\ endIndex # -1 /\ endIndex > startIndex
        THEN trim(substring(content, startIndex + 1, endIndex))
        ELSE null

\* testScript.split("\n")
RECURSIVE split(_)
split(s) ==
    LET k == indexOf(s, NL, 0)
    IN  IF k = -1 THEN << s >>
        ELSE << substring(s, 0, k) >> \o split(substringFrom(s, k + 1))

\* lines.join("\n")
RECURSIVE join(_)
join(lines) ==
    IF Len(lines) = 0 THEN EmptyString
    ELSE IF Len(lines) = 1 THEN lines[1]
    ELSE lines[1] \o << NL >> \o join(Tail(lines))

\* !l.startsWith("//") && !l.startsWith("import") && l.trim() !== ""
isInjectLine(l) ==
    /\ ~(Len(l) > 0 /\ l[1] \in {LINE_COMMENT, TS_NOCHECK})
    /\ ~(Len(l) > 0 /\ l[1] = IMPORT)
    /\ trim(l) # EmptyString

\* lines.findIndex(...), with lines.length in place of -1
injectIndexOf(lines) ==
    LET ks == {k \in 0..(Len(lines) - 1) : isInjectLine(lines[k + 1])}
    IN  IF ks = {} THEN Len(lines)
        ELSE CHOOSE k \in ks : \A j \in ks : k <= j

\* `\n${MANUAL_START}\n${manualZoneContent}\n${MANUAL_END}\n`
\* Mutant: the re-injected block is not closed by the end marker.
manualBlockOf_NoEnd(zone) ==
    << NL, MANUAL_START, NL >> \o zone \o << NL >>

manualBlockOf(zone) ==
    << NL, MANUAL_START, NL >> \o zone \o << NL, MANUAL_END, NL >>

\* Mutant: the guard also re-injects when the end marker is missing.
reinjectManualZone_BothMarkers(script, zone) ==
    IF /\ zone # null
       /\ zone # EmptyString
       /\ ~(includes(script, << MANUAL_START >>)
              /\ includes(script, << MANUAL_END >>))
    THEN LET lines == split(script)
             injectIndex == injectIndexOf(lines)
         IN  join(SubSeq(lines, 1, injectIndex)
                  \o << manualBlockOf(zone) >>
                  \o SubSeq(lines, injectIndex + 1, Len(lines)))
    ELSE script

\* Mutant: the guard is switched off.
reinjectManualZone_Off(script, zone) == script

\* The guard that follows both generation branches of createTestFile:
\* if (manualZoneContent && !testScript.includes(MANUAL_START)) { ... }
reinjectManualZone(script, zone) ==
    IF zone # null /\ zone # EmptyString /\ ~includes(script, << MANUAL_START >>)
    THEN LET lines == split(script)
             injectIndex == injectIndexOf(lines)
         IN  join(SubSeq(lines, 1, injectIndex)
                  \o << manualBlockOf(zone) >>
                  \o SubSeq(lines, injectIndex + 1, Len(lines)))
    ELSE script

----------------------------------------------------------------------------
(* src/ai/generateTestScript.ts: cleaning of the generator's answer.       *)

\* s.replace(/<a><b>/g, "") for the two-token literal a b
RECURSIVE removePairs(_, _, _)
removePairs(s, a, b) ==
    IF Len(s) = 0 THEN s
    ELSE IF Len(s) >= 2 /\ s[1] = a /\ s[2] = b
    THEN removePairs(SubSeq(s, 3, Len(s)), a, b)
    ELSE << s[1] >> \o removePairs(Tail(s), a, b)

\* s.replace(/<a>/g, "")
removeAll(s, a) == SelectSeq(s, LAMBDA c : c # a)

\* script.replace(/```typescript/g,"").replace(/```javascript/g,"")
\*       .replace(/```/g,"").trim()
cleanMarkdown(script) ==
    trim(removeAll(removePairs(removePairs(script, FENCE, "typescript"),
                               FENCE, "javascript"), FENCE))

\* The brace-counting loop of generateTestBlock: endIndex.
RECURSIVE blockEndIndex(_, _, _, _)
blockEndIndex(cleanedScript, i, startCounting, braceCount) ==
    IF i >= Len(cleanedScript) THEN Len(cleanedScript)
    ELSE IF cleanedScript[i + 1] = DESCRIBE
    THEN blockEndIndex(cleanedScript, i + 1, TRUE, braceCount)
    ELSE IF startCounting /\ cleanedScript[i + 1] = "{"
    THEN blockEndIndex(cleanedScript, i + 1, startCounting, braceCount + 1)
    ELSE IF startCounting /\ cleanedScript[i + 1] = "}"
    THEN IF braceCount - 1 = 0 THEN i + 1
         ELSE blockEndIndex(cleanedScript, i + 1, startCounting,
                            braceCount - 1)
    ELSE blockEndIndex(cleanedScript, i + 1, startCounting, braceCount)

\* Mutant: the text in front of the first group is not discarded.
generateTestBlock_KeepPrefix(script) ==
    LET cleaned == cleanMarkdown(script)
    IN  trim(substring(cleaned, 0, blockEndIndex(cleaned, 0, FALSE, 0)))

\* generateTestBlock, from the generator's answer to the returned block
generateTestBlock(script) ==
    LET cleaned == cleanMarkdown(script)
        describeIndex == indexOf(cleaned, DESCRIBE, 0)
        fromDescribe == IF describeIndex > 0
                        THEN substringFrom(cleaned, describeIndex)
                        ELSE cleaned
    IN  trim(substring(fromDescribe, 0,
                       blockEndIndex(fromDescribe, 0, FALSE, 0)))

\* generateTestScript, from the generator's answer to the returned file text
generateTestScript(script) == << TS_NOCHECK, NL >> \o cleanMarkdown(script)

----------------------------------------------------------------------------
(* Values of the variables an operation has not assigned yet.              *)

nullParsedFile ==
    [header |-> EmptyString, testBlocks |-> << >>, footer |-> EmptyString]

----------------------------------------------------------------------------
(* SpecParse: parseTestFile applied to bounded inputs.                     *)

\* test.describe() { }  -- the body follows the argument list
DirectGroup == << DESCRIBE, ")", SP, "{", "x", "}" >>

\* test.describe('X', () => { }); -- the body is the callback's
CallbackGroup ==
    << DESCRIBE, "'", "X", "'", ",", SP, "(", ")", SP, "=>", SP, "{", "x",
       "}", ")", ";" >>

\* test.describe('X', () => { test.describe('Z', () => {}); });
ScenarioC ==
    << DESCRIBE, "'", "X", "'", ",", SP, "(", ")", SP, "=>", SP, "{", SP,
       DESCRIBE, "'", "Z", "'", ",", SP, "(", ")", SP, "=>", SP, "{", "}",
       ")", ";", SP, "}", ")", ";" >>

\* test.describe('X', () => {
ScenarioD ==
    << DESCRIBE, "'", "X", "'", ",", SP, "(", ")", SP, "=>", SP, "{" >>

\* test.describe(){ test.describe(){x} }
OuterInner ==
    << DESCRIBE, ")", "{", SP, DESCRIBE, ")", "{", "x", "}", SP, "}" >>

\* } test.describe(){ test.describe(){} }
StrayClose ==
    << "}", DESCRIBE, ")", "{", DESCRIBE, ")", "{", "}", "}" >>

\* A header, two groups with a statement between them, and a footer.
GappedFile ==
    << IMPORT, NL >> \o DirectGroup \o << NL, "x", ";", NL >> \o DirectGroup
        \o << NL, "z" >>

GroupShapes == {DirectGroup, CallbackGroup}

\* Texts made of exactly k groups, one per line, none nested.
GroupTexts(k) ==
    {Concat([j \in 1..k |-> gs[j] \o << NL >>]) : gs \in [1..k -> GroupShapes]}

ParseAlphabet == {DESCRIBE, "(", ")", "{", "}", SP}

ParseInputs ==
    SeqsUpTo(ParseAlphabet, MaxLen)
        \cup UNION {GroupTexts(k) : k \in 0..MaxGroups}
        \cup {ScenarioC, ScenarioD, OuterInner, StrayClose, GappedFile}

InitParse ==
    /\ pc = "input"
    /\ existingTestContent \in ParseInputs
    /\ feature = EmptyString
    /\ testName = EmptyString
    /\ manualZoneContent = null
    /\ parsedFile = nullParsedFile
    /\ matchingBlock = undefinedBlock
    /\ useIncrementalUpdate = FALSE
    /\ llmOutput = undefined
    /\ updatedBlock = undefined
    /\ regenerated = undefined
    /\ testScript = undefined
    /\ written = undefined
    /\ MainIdle
    /\ ScanIdle
    /\ LabelIdle
    /\ LoopIdle

ParseFile ==
    /\ pc = "input"
    /\ parsedFile' = parseTestFile(existingTestContent)
    /\ pc' = "parsed"
    /\ UNCHANGED << feature, testName, existingTestContent, manualZoneContent,
                    matchingBlock, useIncrementalUpdate, llmOutput,
                    updatedBlock, regenerated, testScript, written >>
    /\ UNCHANGED mainVars
    /\ UNCHANGED scanVars
    /\ UNCHANGED labelVars
    /\ UNCHANGED loopVars

NextParse == ParseFile

SpecParse == InitParse /\ [][NextParse]_vars

----------------------------------------------------------------------------
(* SpecMatch: findMatchingTestBlock applied to parsed files and targets.   *)

\* test.describe('<title>') { <body> }
GroupOf(title, body) ==
    << DESCRIBE, "'" >> \o title \o << "'", ")", SP, "{" >> \o body \o << "}" >>

BlockTexts ==
    { GroupOf(<< "user", SP, "x", SP, "method" >>, << "z" >>),
      GroupOf(<< "user" >>, << "z" >>),
      GroupOf(<< "x", SP, "Method" >>, << >>),
      GroupOf(<< "search" >>, << "X", "(", ")" >>),
      GroupOf(<< "search" >>, << "x" >>),
      << DESCRIBE, ")", SP, "{", "z", ".", "x", "}" >>,
      GroupOf(<< "Order", SP, "z", SP, "method" >>, << >>),
      GroupOf(<< "Order" >>, << "'", "z", "'" >>) }

\* Files of at most n blocks, one per line.
MatchTexts(n) ==
    UNION {{Concat([j \in 1..k |-> bs[j] \o << NL >>]) :
               bs \in [1..k -> BlockTexts]} : k \in 0..n}

TargetFeatures == {<< "user" >>, << "Order" >>}
TargetTestNames == {<< "x" >>, << "Z" >>}

\* Scenario A: a block titled 'Order Management Service' and a block titled
\* 'User Search Service' whose body calls updateOrder(), in either order,
\* with the target (order, updateOrder).
OrderBlock ==
    GroupOf(<< "Order", SP, "Management", SP, "Service" >>, << "x" >>)
UserBlock ==
    GroupOf(<< "User", SP, "Search", SP, "Service" >>,
            << "update", "Order", "(", ")" >>)
ScenarioAFiles ==
    {OrderBlock \o << NL >> \o UserBlock \o << NL >>,
     UserBlock \o << NL >> \o OrderBlock \o << NL >>}
ScenarioATarget == << << "order" >>, << "update", "Order" >> >>

MatchTargets ==
    (TargetFeatures \X TargetTestNames) \cup {ScenarioATarget}

InitMatch ==
    /\ pc = "parsed"
    /\ existingTestContent \in MatchTexts(MaxBlocks) \cup ScenarioAFiles
    /\ parsedFile = parseTestFile(existingTestContent)
    /\ \E target \in MatchTargets :
          feature = target[1] /\ testName = target[2]
    /\ manualZoneContent = null
    /\ matchingBlock = undefinedBlock
    /\ useIncrementalUpdate = FALSE
    /\ llmOutput = undefined
    /\ updatedBlock = undefined
    /\ regenerated = undefined
    /\ testScript = undefined
    /\ written = undefined
    /\ MainIdle
    /\ ScanIdle
    /\ LabelIdle
    /\ LoopIdle

FindMatch ==
    /\ pc = "parsed"
    /\ matchingBlock' = findMatchingTestBlock(parsedFile, feature, testName)
    /\ pc' = "matched"
    /\ UNCHANGED << feature, testName, existingTestContent, manualZoneContent,
                    parsedFile, useIncrementalUpdate, llmOutput, updatedBlock,
                    regenerated, testScript, written >>
    /\ UNCHANGED mainVars
    /\ UNCHANGED scanVars
    /\ UNCHANGED labelVars
    /\ UNCHANGED loopVars

NextMatch == FindMatch

SpecMatch == InitMatch /\ [][NextMatch]_vars

----------------------------------------------------------------------------
(* SpecSplice: replaceTestBlock applied to texts, ranges and replacements. *)

SpliceAlphabet == {"x", "z", NL}
NewAlphabet == {"x", NL}

\* A TestBlock for the range [a, b) of content.
BlockAt(content, a, b) ==
    [content |-> substring(content, a, b), startIndex |-> a, endIndex |-> b,
     featureName |-> undefined, testName |-> undefined]

InitSplice ==
    /\ pc = "matched"
    /\ existingTestContent \in SeqsUpTo(SpliceAlphabet, MaxSpliceLen)
    /\ \E a \in 0..Len(existingTestContent), b \in 0..Len(existingTestContent) :
          /\ a < b
          /\ matchingBlock = BlockAt(existingTestContent, a, b)
    /\ updatedBlock \in SeqsUpTo(NewAlphabet, MaxNewLen)
    /\ feature = EmptyString
    /\ testName = EmptyString
    /\ manualZoneContent = null
    /\ parsedFile = nullParsedFile
    /\ useIncrementalUpdate = TRUE
    /\ llmOutput = undefined
    /\ regenerated = undefined
    /\ testScript = undefined
    /\ written = undefined
    /\ MainIdle
    /\ ScanIdle
    /\ LabelIdle
    /\ LoopIdle

ReplaceBlock ==
    /\ pc = "matched"
    /\ regenerated' = replaceTestBlock(existingTestContent, matchingBlock,
                                       updatedBlock)
    /\ pc' = "replaced"
    /\ UNCHANGED << feature, testName, existingTestContent, manualZoneContent,
                    parsedFile, matchingBlock, useIncrementalUpdate, llmOutput,
                    updatedBlock, testScript, written >>
    /\ UNCHANGED mainVars
    /\ UNCHANGED scanVars
    /\ UNCHANGED labelVars
    /\ UNCHANGED loopVars

NextSplice == ReplaceBlock

SpecSplice == InitSplice /\ [][NextSplice]_vars

----------------------------------------------------------------------------
(* SpecZone: extractManualZone applied to bounded texts.                   *)

ZoneAlphabet == {MANUAL_START, MANUAL_END, "x", SP}

ZoneTexts == SeqsUpTo(ZoneAlphabet, MaxZoneLen)

InitZone ==
    /\ pc = "read"
    /\ existingTestContent \in ZoneTexts
    /\ feature = EmptyString
    /\ testName = EmptyString
    /\ manualZoneContent = null
    /\ parsedFile = nullParsedFile
    /\ matchingBlock = undefinedBlock
    /\ useIncrementalUpdate = FALSE
    /\ llmOutput = undefined
    /\ updatedBlock = undefined
    /\ regenerated = undefined
    /\ testScript = undefined
    /\ written = undefined
    /\ MainIdle
    /\ ScanIdle
    /\ LabelIdle
    /\ LoopIdle

ExtractZone ==
    /\ pc = "read"
    /\ manualZoneContent' = extractManualZone(existingTestContent)
    /\ pc' = "extracted"
    /\ UNCHANGED << feature, testName, existingTestContent, parsedFile,
                    matchingBlock, useIncrementalUpdate, llmOutput,
                    updatedBlock, regenerated, testScript, written >>
    /\ UNCHANGED mainVars
    /\ UNCHANGED scanVars
    /\ UNCHANGED labelVars
    /\ UNCHANGED loopVars

NextZone == ExtractZone

SpecZone == InitZone /\ [][NextZone]_vars

----------------------------------------------------------------------------
(* SpecGuard: the re-injection guard applied to payloads and texts.        *)

\* The values extractManualZone returns on the texts of SpecZone.
Payloads == {extractManualZone(t) : t \in ZoneTexts}

RegenAlphabet ==
    {NL, LINE_COMMENT, IMPORT, "x", SP, MANUAL_START, MANUAL_END}

\* A regenerated file whose import statement spans three lines.
MultiLineImport ==
    << TS_NOCHECK, NL, IMPORT, SP, "{", NL, SP, "x", NL, "}", SP, "z", NL,
       DESCRIBE, ")", SP, "{", "}" >>

RegenTexts == SeqsUpTo(RegenAlphabet, MaxRegenLen) \cup {MultiLineImport}

InitGuard ==
    /\ pc = "generated"
    /\ manualZoneContent \in Payloads
    /\ regenerated \in RegenTexts
    /\ feature = EmptyString
    /\ testName = EmptyString
    /\ existingTestContent = undefined
    /\ parsedFile = nullParsedFile
    /\ matchingBlock = undefinedBlock
    /\ useIncrementalUpdate = FALSE
    /\ llmOutput = undefined
    /\ updatedBlock = undefined
    /\ testScript = undefined
    /\ written = undefined
    /\ MainIdle
    /\ ScanIdle
    /\ LabelIdle
    /\ LoopIdle

EnsureManualZone ==
    /\ pc = "generated"
    /\ testScript' = reinjectManualZone(regenerated, manualZoneContent)
    /\ pc' = "guarded"
    /\ UNCHANGED << feature, testName, existingTestContent, manualZoneContent,
                    parsedFile, matchingBlock, useIncrementalUpdate, llmOutput,
                    updatedBlock, regenerated, written >>
    /\ UNCHANGED mainVars
    /\ UNCHANGED scanVars
    /\ UNCHANGED labelVars
    /\ UNCHANGED loopVars

NextGuard == EnsureManualZone

SpecGuard == InitGuard /\ [][NextGuard]_vars

----------------------------------------------------------------------------
(* Spec: one call of createTestFile (src/scripts/syncFromCodebase.ts).     *)

FileHeader == << TS_NOCHECK, NL, IMPORT, SP, "x", NL >>
ZoneX == << MANUAL_START, NL, "x", NL, MANUAL_END >>

\* The test files found on disk.
ExistingFiles ==
    { \* header, zone, one block whose title matches (user, x)
      FileHeader \o ZoneX \o << NL >>
          \o GroupOf(<< "user", SP, "x", SP, "method" >>, << "z" >>),
      \* one block with the zone inside its body
      GroupOf(<< "user" >>, ZoneX),
      \* two blocks with the zone between them
      GroupOf(<< "user", SP, "x", SP, "method" >>, << >>) \o << NL >> \o ZoneX
          \o << NL >> \o GroupOf(<< "Order", SP, "z", SP, "method" >>, << >>),
      \* a group in callback form, which parses to no block
      FileHeader \o ZoneX \o << NL >> \o CallbackGroup,
      \* no zone, one block with an unrelated title
      GroupOf(<< "search" >>, << "x" >>),
      \* an empty zone and a block
      << MANUAL_START, MANUAL_END, NL >> \o GroupOf(<< "user" >>, << >>),
      \* an end marker before the zone
      << MANUAL_END, NL >> \o ZoneX \o << NL, "z" >>,
      \* two blocks that match no target, and a zone
      ZoneX \o << NL >> \o GroupOf(<< "search" >>, << >>) \o << NL >>
          \o GroupOf(<< "search" >>, << "z" >>),
      \* a zone that holds a second start marker
      << MANUAL_START, "x", MANUAL_START, "z", MANUAL_END >> }

LlmAlphabet ==
    {MANUAL_START, MANUAL_END, "x", DESCRIBE, "{", "}", NL, FENCE}

\* The answers LLMClient.generate may give.
LlmOutputs ==
    SeqsUpTo(LlmAlphabet, MaxLlmLen)
        \cup { << MANUAL_START, NL, "z", NL, MANUAL_END >>,
               DirectGroup,
               << FENCE, "typescript", NL >> \o DirectGroup \o << NL, FENCE >>,
               << IMPORT, SP, "x", NL >> \o DirectGroup \o << NL, "z" >> }

Init ==
    /\ pc = "start"
    /\ feature \in TargetFeatures
    /\ testName \in TargetTestNames
    /\ written \in ExistingFiles \cup {undefined}
    /\ existingTestContent = undefined
    /\ manualZoneContent = null
    /\ parsedFile = nullParsedFile
    /\ matchingBlock = undefinedBlock
    /\ useIncrementalUpdate = FALSE
    /\ llmOutput = undefined
    /\ updatedBlock = undefined
    /\ regenerated = undefined
    /\ testScript = undefined
    /\ MainIdle
    /\ ScanIdle
    /\ LabelIdle
    /\ LoopIdle

\* if (!fs.existsSync(fullPath)) return;
SourceMissing ==
    /\ pc = "start"
    /\ pc' = "done"
    /\ UNCHANGED << feature, testName, existingTestContent, manualZoneContent,
                    parsedFile, matchingBlock, useIncrementalUpdate, llmOutput,
                    updatedBlock, regenerated, testScript, written >>
    /\ UNCHANGED mainVars
    /\ UNCHANGED scanVars
    /\ UNCHANGED labelVars
    /\ UNCHANGED loopVars

\* Mutant: with several blocks and no match the first block is updated.
ReadExisting_SpliceFirst ==
    /\ pc = "start"
    /\ written # undefined
    /\ existingTestContent' = written
    /\ manualZoneContent' = extractManualZone(written)
    /\ LET parsed == parseTestFile(written)
           found == findMatchingTestBlock(parsed, feature, testName)
       IN  /\ parsedFile' = parsed
           /\ IF Len(parsed.testBlocks) > 0
              THEN IF found # undefinedBlock
                   THEN matchingBlock' = found /\ useIncrementalUpdate' = TRUE
                   ELSE /\ matchingBlock' = parsed.testBlocks[1]
                        /\ useIncrementalUpdate' = TRUE
              ELSE UNCHANGED << matchingBlock, useIncrementalUpdate >>
    /\ pc' = "analyze"
    /\ UNCHANGED << feature, testName, llmOutput, updatedBlock, regenerated,
                    testScript, written >>
    /\ UNCHANGED mainVars
    /\ UNCHANGED scanVars
    /\ UNCHANGED labelVars
    /\ UNCHANGED loopVars

\* if (fs.existsSync(testFile)) { ... }: read, extract, parse, select.
ReadExisting ==
    /\ pc = "start"
    /\ written # undefined
    /\ existingTestContent' = written
    /\ manualZoneContent' = extractManualZone(written)
    /\ LET parsed == parseTestFile(written)
           found == findMatchingTestBlock(parsed, feature, testName)
       IN  /\ parsedFile' = parsed
           /\ IF Len(parsed.testBlocks) > 0
              THEN IF found # undefinedBlock
                   THEN matchingBlock' = found /\ useIncrementalUpdate' = TRUE
                   ELSE IF Len(parsed.testBlocks) > 1
                   THEN matchingBlock' = found /\ useIncrementalUpdate' = FALSE
                   ELSE /\ matchingBlock' = parsed.testBlocks[1]
                        /\ useIncrementalUpdate' = TRUE
              ELSE UNCHANGED << matchingBlock, useIncrementalUpdate >>
    /\ pc' = "analyze"
    /\ UNCHANGED << feature, testName, llmOutput, updatedBlock, regenerated,
                    testScript, written >>
    /\ UNCHANGED mainVars
    /\ UNCHANGED scanVars
    /\ UNCHANGED labelVars
    /\ UNCHANGED loopVars

\* The test file does not exist yet.
NoExistingFile ==
    /\ pc = "start"
    /\ written = undefined
    /\ pc' = "analyze"
    /\ UNCHANGED << feature, testName, existingTestContent, manualZoneContent,
                    parsedFile, matchingBlock, useIncrementalUpdate, llmOutput,
                    updatedBlock, regenerated, testScript, written >>
    /\ UNCHANGED mainVars
    /\ UNCHANGED scanVars
    /\ UNCHANGED labelVars
    /\ UNCHANGED loopVars

\* await generateTestCases(...) returns
GenerateTestCases ==
    /\ pc = "analyze"
    /\ pc' = "generate"
    /\ UNCHANGED << feature, testName, existingTestContent, manualZoneContent,
                    parsedFile, matchingBlock, useIncrementalUpdate, llmOutput,
                    updatedBlock, regenerated, testScript, written >>
    /\ UNCHANGED mainVars
    /\ UNCHANGED scanVars
    /\ UNCHANGED labelVars
    /\ UNCHANGED loopVars

\* One of the awaited generator calls rejects: createTestFile rejects.
GenerationFails ==
    /\ pc \in {"analyze", "generate"}
    /\ pc' = "failed"
    /\ UNCHANGED << feature, testName, existingTestContent, manualZoneContent,
                    parsedFile, matchingBlock, useIncrementalUpdate, llmOutput,
                    updatedBlock, regenerated, testScript, written >>
    /\ UNCHANGED mainVars
    /\ UNCHANGED scanVars
    /\ UNCHANGED labelVars
    /\ UNCHANGED loopVars

\* Incremental-block mode: generateTestBlock, replaceTestBlock, guard.
GenerateBlock ==
    /\ pc = "generate"
    /\ useIncrementalUpdate
    /\ matchingBlock # undefinedBlock
    /\ parsedFile # nullParsedFile
    /\ \E script \in LlmOutputs :
          /\ llmOutput' = script
          /\ updatedBlock' = generateTestBlock(script)
          /\ regenerated' = replaceTestBlock(existingTestContent,
                                matchingBlock, generateTestBlock(script))
          /\ testScript' =
                 reinjectManualZone(
                     replaceTestBlock(existingTestContent, matchingBlock,
                                      generateTestBlock(script)),
                     manualZoneContent)
    /\ pc' = "write"
    /\ UNCHANGED << feature, testName, existingTestContent, manualZoneContent,
                    parsedFile, matchingBlock, useIncrementalUpdate, written >>
    /\ UNCHANGED mainVars
    /\ UNCHANGED scanVars
    /\ UNCHANGED labelVars
    /\ UNCHANGED loopVars

\* Whole-file mode: generateTestScript, guard.
GenerateScript ==
    /\ pc = "generate"
    /\ ~(useIncrementalUpdate /\ matchingBlock # undefinedBlock
         /\ parsedFile # nullParsedFile)
    /\ \E script \in LlmOutputs :
          /\ llmOutput' = script
          /\ regenerated' = generateTestScript(script)
          /\ testScript' = reinjectManualZone(generateTestScript(script),
                                              manualZoneContent)
    /\ pc' = "write"
    /\ UNCHANGED << feature, testName, existingTestContent, manualZoneContent,
                    parsedFile, matchingBlock, useIncrementalUpdate,
                    updatedBlock, written >>
    /\ UNCHANGED mainVars
    /\ UNCHANGED scanVars
    /\ UNCHANGED labelVars
    /\ UNCHANGED loopVars

\* fs.writeFileSync(testFile, testScript)
WriteFile ==
    /\ pc = "write"
    /\ written' = testScript
    /\ pc' = "done"
    /\ UNCHANGED << feature, testName, existingTestContent, manualZoneContent,
                    parsedFile, matchingBlock, useIncrementalUpdate, llmOutput,
                    updatedBlock, regenerated, testScript >>
    /\ UNCHANGED mainVars
    /\ UNCHANGED scanVars
    /\ UNCHANGED labelVars
    /\ UNCHANGED loopVars

Next ==
    \/ SourceMissing
    \/ ReadExisting
    \/ NoExistingFile
    \/ GenerateTestCases
    \/ GenerationFails
    \/ GenerateBlock
    \/ GenerateScript
    \/ WriteFile

Spec == Init /\ [][Next]_vars

----------------------------------------------------------------------------
(* Vocabulary of the claims.                                               *)

\* Offsets of the group-opening tokens of a text.
DescribeOffsets(content) ==
    {p \in 0..(Len(content) - 1) : content[p + 1] = DESCRIBE}

\* The token at p lies in the body of the group opened at an earlier offset:
\* after that group's opening brace and before its closing brace.
InsideOpenGroup(content, p) ==
    \E q \in DescribeOffsets(content) :
        /\ q < p
        /\ skipToOpeningBrace(content, q, 0, FALSE) # -1
        /\ skipToOpeningBrace(content, q, 0, FALSE) <= p
        /\ p < findMatchingClosingBrace(content, q)

BlockStarts(parsed) ==
    {parsed.testBlocks[k].startIndex : k \in 1..Len(parsed.testBlocks)}

\* The text holds a start marker and, somewhere after it, an end marker.
HasManualZone(content) ==
    \E i \in 1..Len(content), j \in 1..Len(content) :
        i < j /\ content[i] = MANUAL_START /\ content[j] = MANUAL_END

----------------------------------------------------------------------------
(* Claims on createTestFile, checked under Spec.                           *)

\* C1: whenever the existing test file holds a manual zone, the text that
\* createTestFile writes, in either mode and for every answer of the
\* generator, holds the same zone: extractManualZone of the written text
\* equals extractManualZone of the old file.
C1_ManualZoneSurvives ==
    (pc = "done" /\ existingTestContent # undefined /\ testScript # undefined
        /\ HasManualZone(existingTestContent))
    => extractManualZone(written) = extractManualZone(existingTestContent)

----------------------------------------------------------------------------
(* Claims on parseTestFile, checked under SpecParse.                       *)

\* C3: the nested group in callback form, test.describe('X', () => {
\* test.describe('Z', () => {}); });, parses to exactly one block that starts
\* at the outer token, reaches past the outer closing brace and holds the
\* inner token.
C3_ScenarioCOneBlock ==
    (pc = "parsed" /\ existingTestContent = ScenarioC)
    => /\ Len(parsedFile.testBlocks) = 1
       /\ parsedFile.testBlocks[1].startIndex = 0
       /\ parsedFile.testBlocks[1].endIndex >= Len(ScenarioC) - 2
       /\ DescribeOffsets(parsedFile.testBlocks[1].content) = {0, 13}

\* C4: a text made of exactly k groups, none nested, each with a balanced
\* body, in whatever form the argument list takes, parses to exactly k
\* blocks.
C4_BlockCount ==
    pc = "parsed"
    => \A k \in 0..MaxGroups :
           existingTestContent \in GroupTexts(k)
           => Len(parsedFile.testBlocks) = k

\* C5: on every input, no group-opening token that lies in the
\* body of a group that is still open starts an entry of testBlocks; and
\* outer(){ inner(){...} } gives exactly one block, which holds the inner
\* token.
C5_NestingExclusion ==
    pc = "parsed"
    => /\ \A p \in BlockStarts(parsedFile) :
              ~InsideOpenGroup(existingTestContent, p)
       /\ existingTestContent = OuterInner
          => /\ Len(parsedFile.testBlocks) = 1
             /\ DescribeOffsets(parsedFile.testBlocks[1].content) = {0, 4}

----------------------------------------------------------------------------
(* Claims on findMatchingTestBlock, checked under SpecMatch.               *)

\* The blocks of the parsed file that satisfy rule r of the cascade for the
\* target: 1 exact labels, 2 test label, 3 feature label, 4 content
\* heuristic, 5 sole block of the file.
RuleHits(r) ==
    LET blocks == parsedFile.testBlocks
        f == toLowerCase(feature)
        t == toLowerCase(testName)
    IN  {k \in 1..Len(blocks) :
            CASE r = 1 -> blocks[k].featureName = f /\ blocks[k].testName = t
              [] r = 2 -> blocks[k].testName = t
              [] r = 3 -> blocks[k].featureName = f
              [] r = 4 -> \/ includes(toLowerCase(blocks[k].content),
                                      t \o << "(" >>)
                          \/ includes(toLowerCase(blocks[k].content),
                                      t \o << "." >>)
                          \/ includes(toLowerCase(blocks[k].content),
                                      << "'" >> \o t \o << "'" >>)
                          \/ includes(toLowerCase(blocks[k].content),
                                      << "\"" >> \o t \o << "\"" >>)
              [] r = 5 -> Len(blocks) = 1}

FirstHit(r) ==
    parsedFile.testBlocks[CHOOSE k \in RuleHits(r) :
                              \A j \in RuleHits(r) : k <= j]

\* C2 as stated: when every rule of the cascade is satisfied by no block or
\* by more than one block, the result is no match.
C2_NeverGuesses_Original ==
    pc = "matched"
    => ((\A r \in 1..5 : Cardinality(RuleHits(r)) # 1)
        => matchingBlock = undefinedBlock)

\* C2 as amended: the result is no match exactly when no block satisfies
\* any of rules 1 to 4 and the file is not a single block; a rule satisfied
\* by several blocks is not ambiguous, its first block is returned.
C2_NoMatchOnlyWithoutCandidates ==
    pc = "matched"
    => /\ matchingBlock = undefinedBlock
          <=> /\ \A r \in 1..4 : RuleHits(r) = {}
              /\ Len(parsedFile.testBlocks) # 1
       /\ \A r \in 1..4 :
              (Cardinality(RuleHits(r)) > 1 /\ \A q \in 1..(r - 1) :
                                                   RuleHits(q) = {})
              => matchingBlock = FirstHit(r)

\* C2 witness: two or more blocks, none of them a candidate of any rule, and
\* no match returned.
C2_Witness ==
    /\ pc = "matched"
    /\ Len(parsedFile.testBlocks) >= 2
    /\ \A r \in 1..4 : RuleHits(r) = {}
    /\ matchingBlock = undefinedBlock

\* C6: the result is the first block in file order among those that satisfy
\* the highest-priority rule (1 to 4) that any block satisfies; with an
\* exact-match block and a feature-only block, the exact-match block is
\* returned whichever comes first.
C6_MatcherCascade ==
    pc = "matched"
    => \A r \in 1..4 :
           (RuleHits(r) # {} /\ \A q \in 1..(r - 1) : RuleHits(q) = {})
           => matchingBlock = FirstHit(r)

\* C6 witness: a feature-only block precedes the exact-match block and the
\* exact-match block is returned.
C6_Witness ==
    /\ pc = "matched"
    /\ Len(parsedFile.testBlocks) = 2
    /\ RuleHits(1) = {2}
    /\ RuleHits(3) = {1, 2}
    /\ RuleHits(2) = {2}
    /\ matchingBlock = parsedFile.testBlocks[2]

\* C7: a file of exactly one block gives that block for every target,
\* whatever its title; a file of two or more blocks none of which satisfies
\* rules 1 to 4 gives no match.
C7_SingleBlockFallback ==
    pc = "matched"
    => /\ Len(parsedFile.testBlocks) = 1
          => matchingBlock = parsedFile.testBlocks[1]
       /\ (Len(parsedFile.testBlocks) >= 2 /\ \A r \in 1..4 : RuleHits(r) = {})
          => matchingBlock = undefinedBlock

\* C7 witness: the sole block of a file, satisfying none of rules 1 to 4, is
\* returned.
C7_Witness ==
    /\ pc = "matched"
    /\ Len(parsedFile.testBlocks) = 1
    /\ \A r \in 1..4 : RuleHits(r) = {}
    /\ matchingBlock = parsedFile.testBlocks[1]

----------------------------------------------------------------------------
(* Claim on replaceTestBlock, checked under SpecSplice.                    *)

\* The seam before offset a of text o: the least p such that o[p, a) is
\* whitespace only.
SeamBefore(o, a) ==
    CHOOSE p \in 0..a :
        /\ \A k \in (p + 1)..a : IsSpace(o[k])
        /\ p = 0 \/ ~IsSpace(o[p])

\* The seam after offset b of text o: the greatest q such that o[b, q) is
\* whitespace only.
SeamAfter(o, b) ==
    CHOOSE q \in b..Len(o) :
        /\ \A k \in (b + 1)..q : IsSpace(o[k])
        /\ q = Len(o) \/ ~IsSpace(o[q + 1])

\* C8: the spliced text is the original up to the block without its
\* trailing whitespace, two newlines, the new content exactly as given, two
\* newlines, and the original from the end of the block without its leading
\* whitespace; nothing else of the original is changed or reordered.
C8_SpliceLocality ==
    pc = "replaced"
    => LET o == existingTestContent
           p == SeamBefore(o, matchingBlock.startIndex)
           q == SeamAfter(o, matchingBlock.endIndex)
       IN  /\ regenerated = SubSeq(o, 1, p) \o << NL, NL >> \o updatedBlock
                                \o << NL, NL >> \o SubSeq(o, q + 1, Len(o))
           /\ Len(regenerated) = p + Len(updatedBlock) + 4 + (Len(o) - q)

\* C8 witness: a splice with text and seam whitespace on both sides of the
\* block and a non-empty new content.
C8_Witness ==
    /\ pc = "replaced"
    /\ updatedBlock # EmptyString
    /\ SeamBefore(existingTestContent, matchingBlock.startIndex) > 0
    /\ SeamBefore(existingTestContent, matchingBlock.startIndex)
           < matchingBlock.startIndex
    /\ SeamAfter(existingTestContent, matchingBlock.endIndex)
           > matchingBlock.endIndex
    /\ SeamAfter(existingTestContent, matchingBlock.endIndex)
           < Len(existingTestContent)

----------------------------------------------------------------------------
(* Claim on extractManualZone, checked under SpecZone.                     *)

\* Offset of the first start marker of the text, -1 when it has none.
FirstStart(content) ==
    LET ks == {k \in 0..(Len(content) - 1) : content[k + 1] = MANUAL_START}
    IN  IF ks = {} THEN -1 ELSE CHOOSE k \in ks : \A j \in ks : k <= j

\* Offset of the first end marker after offset s, -1 when none follows.
FirstEndAfter(content, s) ==
    LET ks == {k \in (s + 1)..(Len(content) - 1) : content[k + 1] = MANUAL_END}
    IN  IF ks = {} THEN -1 ELSE CHOOSE k \in ks : \A j \in ks : k <= j

\* C9: the extracted zone is the trimmed text between the first start marker
\* and the first end marker that follows it, whenever such a pair exists,
\* and none otherwise.
C9_FirstEndAfterFirstStart ==
    pc = "extracted"
    => LET s == FirstStart(existingTestContent)
           e == IF s = -1 THEN -1 ELSE FirstEndAfter(existingTestContent, s)
       IN  IF s # -1 /\ e # -1
           THEN manualZoneContent
                    = trim(SubSeq(existingTestContent, s + 2, e))
           ELSE manualZoneContent = null

----------------------------------------------------------------------------
(* Claim on the manual-zone guard of createTestFile, checked under         *)
(* SpecGuard.                                                              *)

\* The guard's precondition in C10: the old file had a zone with non-empty
\* content and the regenerated text holds neither marker.
ZoneDropped ==
    /\ manualZoneContent # null
    /\ manualZoneContent # EmptyString
    /\ ~includes(regenerated, << MANUAL_START >>)
    /\ ~includes(regenerated, << MANUAL_END >>)

\* C10 as stated: the guarded text holds exactly one start marker and one
\* end marker, in that order, with the extracted content between them.
C10_ExactlyOneZone_Original ==
    (pc = "guarded" /\ ZoneDropped)
    => /\ countOf(testScript, MANUAL_START) = 1
       /\ countOf(testScript, MANUAL_END) = 1
       /\ FirstStart(testScript) < FirstEndAfter(testScript, -1)
       /\ SubSeq(testScript, FirstStart(testScript) + 2,
                 FirstEndAfter(testScript, -1))
              = << NL >> \o manualZoneContent \o << NL >>

\* C10 as amended: the guarded text holds exactly one end marker, its first
\* start marker comes before it with a newline, the extracted content and a
\* newline between the two, and the only start markers besides that first
\* one are those of the extracted content itself (none when the content
\* holds no start marker).
C10_OneZoneAroundContent ==
    (pc = "guarded" /\ ZoneDropped)
    => /\ countOf(testScript, MANUAL_END) = 1
       /\ countOf(testScript, MANUAL_START)
              = 1 + countOf(manualZoneContent, MANUAL_START)
       /\ FirstStart(testScript) # -1
       /\ FirstStart(testScript) < FirstEndAfter(testScript, -1)
       /\ SubSeq(testScript, FirstStart(testScript) + 2,
                 FirstEndAfter(testScript, -1))
              = << NL >> \o manualZoneContent \o << NL >>

\* C10 witness: a zone taken from the old file is put back into a
\* regenerated text that dropped both markers and has a line of code.
C10_Witness ==
    /\ pc = "guarded"
    /\ ZoneDropped
    /\ \E k \in 1..Len(regenerated) : IsWord(regenerated[k])
    /\ testScript # regenerated
    /\ countOf(testScript, MANUAL_START) = 1

----------------------------------------------------------------------------
(* Further claims on the manual-zone guard, checked under SpecGuard.       *)

\* C11: the guard returns the regenerated text unchanged when no zone was
\* extracted from the old file, and when the regenerated text holds the
\* start marker, whatever else it holds.
C11_GuardLeavesUnchanged ==
    (pc = "guarded"
        /\ (manualZoneContent = null
               \/ includes(regenerated, << MANUAL_START >>)))
    => testScript = regenerated

\* C11 witness: a zone was extracted, the regenerated text holds a start
\* marker but no end marker and not the zone's content, and it is returned
\* as it is.
C11_Witness ==
    /\ pc = "guarded"
    /\ manualZoneContent # null
    /\ manualZoneContent # EmptyString
    /\ includes(regenerated, << MANUAL_START >>)
    /\ ~includes(regenerated, << MANUAL_END >>)
    /\ ~includes(regenerated, manualZoneContent)
    /\ testScript = regenerated

\* The guard re-injects: a non-empty zone was extracted and the regenerated
\* text holds no start marker.
Reinjects ==
    /\ manualZoneContent # null
    /\ manualZoneContent # EmptyString
    /\ ~includes(regenerated, << MANUAL_START >>)

\* The element spliced into the lines of the regenerated text.
ZoneBlock ==
    << NL, MANUAL_START, NL >> \o manualZoneContent \o << NL, MANUAL_END, NL >>

\* The text with the zone block put in front of line k + 1 of its lines.
InjectedAt(k) ==
    LET lines == split(regenerated)
    IN  join(SubSeq(lines, 1, k) \o << ZoneBlock >>
                 \o SubSeq(lines, k + 1, Len(lines)))

\* Number of lines in front of the first line that satisfies Code(_), all
\* the lines when none does.
LinesBefore(lines, Code(_)) ==
    LET ks == {k \in 0..(Len(lines) - 1) : Code(lines[k + 1])}
    IN  IF ks = {} THEN Len(lines)
        ELSE CHOOSE k \in ks : \A j \in ks : k <= j

\* A line that is neither blank, nor a comment, nor an import, where a
\* comment or import line may be indented.
IsCodeLine(l) ==
    LET t == trimStart(l)
    IN  /\ t # EmptyString
        /\ t[1] \notin {LINE_COMMENT, TS_NOCHECK, IMPORT}

\* C12: on re-injection the zone block stands immediately before
\* the first line that is neither blank nor a comment line nor an import
\* line, at the end when there is no such line, the lines keeping their
\* order.
C12_InjectionPosition ==
    (pc = "guarded" /\ Reinjects)
    => testScript = InjectedAt(LinesBefore(split(regenerated), IsCodeLine))

----------------------------------------------------------------------------
(* Claim on the choice between the two modes of createTestFile, checked    *)
(* under Spec.                                                             *)

\* A block was spliced: generateTestBlock and replaceTestBlock have run.
Spliced == updatedBlock # undefined

\* The highest-priority rule (1 to 4) that some block of the parsed file
\* satisfies for the target, 0 when there is none.
BestRule ==
    IF \A r \in 1..4 : RuleHits(r) = {} THEN 0
    ELSE CHOOSE r \in 1..4 :
             RuleHits(r) # {} /\ \A q \in 1..(r - 1) : RuleHits(q) = {}

\* C13: a block is spliced only if it is the block the matcher selects for
\* the target or the sole block of the file; a file that parses to no block,
\* or to several blocks none of which the matcher selects, is regenerated as
\* a whole and nothing is spliced.
C13_ModeSelection ==
    (pc \in {"write", "done"} /\ testScript # undefined
        /\ existingTestContent # undefined)
    => LET blocks == parsedFile.testBlocks
       IN  /\ Spliced
              => /\ Len(blocks) >= 1
                 /\ \/ Len(blocks) = 1 /\ matchingBlock = blocks[1]
                    \/ BestRule # 0 /\ matchingBlock = FirstHit(BestRule)
                 /\ regenerated = replaceTestBlock(existingTestContent,
                                      matchingBlock, updatedBlock)
           /\ (Len(blocks) = 0 \/ (Len(blocks) >= 2 /\ BestRule = 0))
              => /\ ~Spliced
                 /\ regenerated = generateTestScript(llmOutput)

\* C13 witness: a file of two blocks, neither selected for the target, has
\* been regenerated as a whole and written.
C13_Witness ==
    /\ pc = "done"
    /\ existingTestContent # undefined
    /\ Len(parsedFile.testBlocks) >= 2
    /\ BestRule = 0
    /\ ~Spliced
    /\ written = testScript
    /\ regenerated = generateTestScript(llmOutput)

----------------------------------------------------------------------------
(* Further claims on parseTestFile, checked under SpecParse.               *)

\* C14: every block has startIndex < endIndex and holds exactly the input
\* text of [startIndex, endIndex); the blocks are in file order and no two
\* overlap.
C14_BlockInvariant ==
    pc = "parsed"
    => LET blocks == parsedFile.testBlocks
       IN  /\ \A k \in 1..Len(blocks) :
                  /\ 0 <= blocks[k].startIndex
                  /\ blocks[k].startIndex < blocks[k].endIndex
                  /\ blocks[k].endIndex <= Len(existingTestContent)
                  /\ blocks[k].content
                         = SubSeq(existingTestContent,
                                  blocks[k].startIndex + 1, blocks[k].endIndex)
           /\ \A k \in 1..(Len(blocks) - 1) :
                  blocks[k].endIndex <= blocks[k + 1].startIndex

\* C14 witness: a text that parses to two blocks with text between them.
C14_Witness ==
    /\ pc = "parsed"
    /\ Len(parsedFile.testBlocks) = 2
    /\ parsedFile.testBlocks[1].endIndex < parsedFile.testBlocks[2].startIndex
    /\ parsedFile.testBlocks[1].content = DirectGroup


\* The text without its whitespace.
Squeeze(s) == SelectSeq(s, LAMBDA c : ~IsSpace(c))

\* header, the contents of the blocks in order, footer.
Reassembled(parsed) ==
    parsed.header
        \o Concat([k \in 1..Len(parsed.testBlocks) |->
                      parsed.testBlocks[k].content])
        \o parsed.footer

\* The text lying between block k and block k + 1.
GapAfter(content, parsed, k) ==
    SubSeq(content, parsed.testBlocks[k].endIndex + 1,
           parsed.testBlocks[k + 1].startIndex)

\* The text without what lies between consecutive blocks.
WithoutGaps(content, parsed) ==
    LET blocks == parsed.testBlocks
        n == Len(blocks)
    IN  SubSeq(content, 1, blocks[1].endIndex)
            \o Concat([k \in 1..(n - 1) |->
                          SubSeq(content, blocks[k + 1].startIndex + 1,
                                 blocks[k + 1].endIndex)])
            \o SubSeq(content, blocks[n].endIndex + 1, Len(content))

\* C15 as stated: for a file with at least one block, header, block contents
\* and footer put together are the file up to whitespace, so that no
\* non-whitespace character of the file is missing.
C15_Reconstruction_Original ==
    (pc = "parsed" /\ Len(parsedFile.testBlocks) >= 1)
    => Squeeze(Reassembled(parsedFile)) = Squeeze(existingTestContent)

\* C15 as amended: for a file with at least one block, header, block
\* contents and footer put together are, up to whitespace, the file without
\* the text that lies between consecutive blocks; that text is in no part of
\* the result, and the file is reconstructed exactly when it is whitespace.
C15_ReconstructionWithoutGaps ==
    (pc = "parsed" /\ Len(parsedFile.testBlocks) >= 1)
    => /\ Squeeze(Reassembled(parsedFile))
              = Squeeze(WithoutGaps(existingTestContent, parsedFile))
       /\ Squeeze(Reassembled(parsedFile)) = Squeeze(existingTestContent)
              <=> \A k \in 1..(Len(parsedFile.testBlocks) - 1) :
                      Squeeze(GapAfter(existingTestContent, parsedFile, k))
                          = EmptyString
       /\ parsedFile.header = trim(parsedFile.header)
       /\ parsedFile.footer = trim(parsedFile.footer)

\* C15 witness: a file with a header, two blocks, a statement between them
\* and a footer has been parsed.
C15_Witness ==
    /\ pc = "parsed"
    /\ Len(parsedFile.testBlocks) = 2
    /\ parsedFile.header # EmptyString
    /\ parsedFile.footer # EmptyString
    /\ Squeeze(GapAfter(existingTestContent, parsedFile, 1)) # EmptyString


\* The occurrences of the group-opening token with brace depth 0 before
\* them.
TopLevelOffsets(content) ==
    {p \in DescribeOffsets(content) :
        Cardinality({k \in 1..p : content[k] = "{"})
            = Cardinality({k \in 1..p : content[k] = "}"})}

\* The top-level occurrences for which the scanner finds no end.
FailedOffsets(content) ==
    {p \in TopLevelOffsets(content) : findMatchingClosingBrace(content, p) = -1}

\* Offset p lies within a block of the parse result.
CoveredByBlock(parsed, p) ==
    \E k \in 1..Len(parsed.testBlocks) :
        /\ parsed.testBlocks[k].startIndex <= p
        /\ p < parsed.testBlocks[k].endIndex

\* C16: a top-level occurrence for which the scanner returns -1 gives no
\* block, and the scan goes on behind it: every later top-level occurrence
\* whose end is found starts a block or lies within one; no block comes from
\* anything else; the unterminated text of Scenario D gives no block.
C16_FailSoft ==
    pc = "parsed"
    => /\ Len(parsedFile.testBlocks)
              <= Cardinality(TopLevelOffsets(existingTestContent)
                                 \ FailedOffsets(existingTestContent))
       /\ \A p \in FailedOffsets(existingTestContent) :
              p \notin BlockStarts(parsedFile)
       /\ \A p \in TopLevelOffsets(existingTestContent)
                       \ FailedOffsets(existingTestContent) :
              CoveredByBlock(parsedFile, p)
       /\ existingTestContent = ScenarioD
              => parsedFile = [header |-> EmptyString, testBlocks |-> << >>,
                               footer |-> EmptyString]

\* C16 witness: the scanner finds no end for a top-level occurrence and the
\* parse gives a block that starts behind it.
C16_Witness ==
    /\ pc = "parsed"
    /\ \E p \in FailedOffsets(existingTestContent) :
           \E q \in BlockStarts(parsedFile) : p < q

----------------------------------------------------------------------------
(* Scenario A, checked under SpecMatch.                                    *)

\* The target and the file are those of Scenario A.
InScenarioA ==
    /\ existingTestContent \in ScenarioAFiles
    /\ << feature, testName >> = ScenarioATarget

\* C17: in Scenario A the parsed file has the two blocks, neither satisfies
\* the exact rule or the test-label rule for (order, updateOrder), and the
\* order block is returned, by the feature-label rule.
C17_ScenarioA ==
    (pc = "matched" /\ InScenarioA)
    => /\ Len(parsedFile.testBlocks) = 2
       /\ RuleHits(1) = {}
       /\ RuleHits(2) = {}
       /\ \A k \in RuleHits(3) : parsedFile.testBlocks[k].content = OrderBlock
       /\ matchingBlock.content = OrderBlock
       /\ matchingBlock.featureName = << "order" >>

\* C17 witness: Scenario A with the user block first, whose body satisfies
\* the content heuristic, and the order block returned.
C17_Witness ==
    /\ pc = "matched"
    /\ InScenarioA
    /\ parsedFile.testBlocks[1].content = UserBlock
    /\ RuleHits(4) = {1}
    /\ matchingBlock = parsedFile.testBlocks[2]

----------------------------------------------------------------------------
(* src/scripts/syncFromCodebase.ts: main, the batch run over the changed   *)
(* files.  An entry of files tells whether the source file of the target   *)
(* exists (fs.existsSync(fullPath)); an action runs the code from one      *)
(* await to the next.  events records the calls of the generators          *)
(* ("cases" for generateTestCases, "script" for generateTestBlock or       *)
(* generateTestScript), their failures ("fail") and the file writes        *)
(* ("write"), each with the position of its target in files.               *)

\* const files = getChangedFiles()
ChangedFiles == UNION {[1..n -> BOOLEAN] : n \in 0..MaxFiles}

InitMain ==
    /\ files \in ChangedFiles
    /\ fileIndex = 0
    /\ mainPc = "main"
    /\ events = << >>
    /\ exitCode = -1
    /\ pc = "idle"
    /\ feature = EmptyString
    /\ testName = EmptyString
    /\ existingTestContent = undefined
    /\ manualZoneContent = null
    /\ parsedFile = nullParsedFile
    /\ matchingBlock = undefinedBlock
    /\ useIncrementalUpdate = FALSE
    /\ llmOutput = undefined
    /\ updatedBlock = undefined
    /\ regenerated = undefined
    /\ testScript = undefined
    /\ written = undefined
    /\ ScanIdle
    /\ LabelIdle
    /\ LoopIdle

\* if (files.length === 0) return;
MainNoFiles ==
    /\ mainPc = "main"
    /\ Len(files) = 0
    /\ mainPc' = "exit"
    /\ exitCode' = 0
    /\ UNCHANGED << files, fileIndex, events >>
    /\ UNCHANGED fileVars
    /\ UNCHANGED scanVars
    /\ UNCHANGED labelVars
    /\ UNCHANGED loopVars

\* for (const file of files) { await createTestFile(file, dirStructure); }
\* the loop takes its first or its next file, or ends.
MainNextFile ==
    /\ mainPc \in {"main", "next"}
    /\ Len(files) > 0
    /\ IF fileIndex < Len(files)
       THEN /\ fileIndex' = fileIndex + 1
            /\ mainPc' = "create"
            /\ UNCHANGED exitCode
       ELSE /\ mainPc' = "exit"
            /\ exitCode' = 0
            /\ UNCHANGED fileIndex
    /\ UNCHANGED << files, events >>
    /\ UNCHANGED fileVars
    /\ UNCHANGED scanVars
    /\ UNCHANGED labelVars
    /\ UNCHANGED loopVars

\* createTestFile: the source file is missing, return without a write.
CreateSourceMissing ==
    /\ mainPc = "create"
    /\ ~files[fileIndex]
    /\ mainPc' = "next"
    /\ UNCHANGED << files, fileIndex, events, exitCode >>
    /\ UNCHANGED fileVars
    /\ UNCHANGED scanVars
    /\ UNCHANGED labelVars
    /\ UNCHANGED loopVars

\* createTestFile up to await generateTestCases(...)
CreateCallsGenerateTestCases ==
    /\ mainPc = "create"
    /\ files[fileIndex]
    /\ events' = Append(events, << "cases", fileIndex >>)
    /\ mainPc' = "cases"
    /\ UNCHANGED << files, fileIndex, exitCode >>
    /\ UNCHANGED fileVars
    /\ UNCHANGED scanVars
    /\ UNCHANGED labelVars
    /\ UNCHANGED loopVars

\* generateTestCases resolves; createTestFile up to await generateTestBlock
\* or await generateTestScript.
CreateCallsGenerateScript ==
    /\ mainPc = "cases"
    /\ events' = Append(events, << "script", fileIndex >>)
    /\ mainPc' = "script"
    /\ UNCHANGED << files, fileIndex, exitCode >>
    /\ UNCHANGED fileVars
    /\ UNCHANGED scanVars
    /\ UNCHANGED labelVars
    /\ UNCHANGED loopVars

\* The generator resolves; createTestFile writes the file and returns.
CreateWritesFile ==
    /\ mainPc = "script"
    /\ events' = Append(events, << "write", fileIndex >>)
    /\ mainPc' = "next"
    /\ UNCHANGED << files, fileIndex, exitCode >>
    /\ UNCHANGED fileVars
    /\ UNCHANGED scanVars
    /\ UNCHANGED labelVars
    /\ UNCHANGED loopVars

\* Mutant: a failed generation is skipped and the loop goes on.
GenerationRejects_Continue ==
    /\ mainPc \in {"cases", "script"}
    /\ events' = Append(events, << "fail", fileIndex >>)
    /\ mainPc' = "next"
    /\ UNCHANGED << files, fileIndex, exitCode >>
    /\ UNCHANGED fileVars
    /\ UNCHANGED scanVars
    /\ UNCHANGED labelVars
    /\ UNCHANGED loopVars

\* An awaited generator call rejects (LLMClient.generate rethrows):
\* createTestFile and main reject, main().catch calls process.exit(1).
GenerationRejects ==
    /\ mainPc \in {"cases", "script"}
    /\ events' = Append(events, << "fail", fileIndex >>)
    /\ mainPc' = "exit"
    /\ exitCode' = 1
    /\ UNCHANGED << files, fileIndex >>
    /\ UNCHANGED fileVars
    /\ UNCHANGED scanVars
    /\ UNCHANGED labelVars
    /\ UNCHANGED loopVars

NextMain ==
    \/ MainNoFiles
    \/ MainNextFile
    \/ CreateSourceMissing
    \/ CreateCallsGenerateTestCases
    \/ CreateCallsGenerateScript
    \/ CreateWritesFile
    \/ GenerationRejects

SpecMain == InitMain /\ [][NextMain]_vars

----------------------------------------------------------------------------
(* Claim on main, checked under SpecMain.                                  *)

\* The positions of events that record kind for target i.
EventsOf(kind, i) ==
    {p \in 1..Len(events) : events[p] = << kind, i >>}

\* Targets are handled strictly one after the other: the events are in the
\* order of the targets, and a write is the last event of its target.
OneAtATime ==
    /\ \A p \in 1..Len(events), q \in 1..Len(events) :
           p < q => events[p][2] <= events[q][2]
    /\ \A p \in 1..Len(events), q \in 1..Len(events) :
           (p < q /\ events[p][1] = "write") => events[p][2] < events[q][2]

\* A failure ends the run: it is the last event and the exit code is 1; no
\* file is written for the failed target or a later one.
FailureEndsRun ==
    \A k \in 1..Len(files) :
        EventsOf("fail", k) # {}
        => /\ EventsOf("fail", k) = {Len(events)}
           /\ mainPc = "exit"
           /\ exitCode = 1
           /\ \A i \in k..Len(files) : EventsOf("write", i) = {}

\* C18 as stated: targets are handled one at a time, the write for a target
\* before any generation for the next; when the generation for target k
\* fails, the files of all targets before k have been written, none for k
\* or later, and the exit code is 1.
C18_BatchOrdering_Original ==
    /\ OneAtATime
    /\ FailureEndsRun
    /\ \A k \in 1..Len(files) :
           EventsOf("fail", k) # {}
           => \A i \in 1..(k - 1) : EventsOf("write", i) # {}

\* C18 as amended: as stated, except that of the targets before k exactly
\* those whose source file exists have been written (once each); a target
\* whose source file is missing is passed over without a write.
C18_BatchOrderingOfExistingSources ==
    /\ OneAtATime
    /\ FailureEndsRun
    /\ \A k \in 1..Len(files) :
           EventsOf("fail", k) # {}
           => \A i \in 1..(k - 1) :
                  Cardinality(EventsOf("write", i)) = IF files[i] THEN 1 ELSE 0

\* C18 witness: the generation for the third target has failed after the
\* file of the first was written and the second was passed over.
C18_Witness ==
    /\ mainPc = "exit"
    /\ exitCode = 1
    /\ EventsOf("fail", 3) # {}
    /\ EventsOf("write", 1) # {}
    /\ ~files[2]

----------------------------------------------------------------------------
(* src/ai/testFileParser.ts: one call of findMatchingClosingBrace, as      *)
(* parseTestFile makes it at an occurrence of the group-opening token.     *)

InitScan ==
    /\ pc = "scan"
    /\ existingTestContent \in ParseInputs
    /\ scanStart \in DescribeOffsets(existingTestContent)
    /\ scanEnd = -1
    /\ feature = EmptyString
    /\ testName = EmptyString
    /\ manualZoneContent = null
    /\ parsedFile = nullParsedFile
    /\ matchingBlock = undefinedBlock
    /\ useIncrementalUpdate = FALSE
    /\ llmOutput = undefined
    /\ updatedBlock = undefined
    /\ regenerated = undefined
    /\ testScript = undefined
    /\ written = undefined
    /\ MainIdle
    /\ LabelIdle
    /\ LoopIdle

\* const blockEnd = findMatchingClosingBrace(content, describeMatch)
FindClosingBrace ==
    /\ pc = "scan"
    /\ scanEnd' = findMatchingClosingBrace(existingTestContent, scanStart)
    /\ pc' = "scanned"
    /\ UNCHANGED << feature, testName, existingTestContent, manualZoneContent,
                    parsedFile, matchingBlock, useIncrementalUpdate, llmOutput,
                    updatedBlock, regenerated, testScript, written,
                    scanStart >>
    /\ UNCHANGED mainVars
    /\ UNCHANGED labelVars
    /\ UNCHANGED loopVars

NextScan == FindClosingBrace

SpecScan == InitScan /\ [][NextScan]_vars

----------------------------------------------------------------------------
(* Claims on findMatchingClosingBrace, checked under SpecScan.             *)

\* Brace depth after the text of offsets [a, b), starting from depth 1.
DepthAfter(content, a, b) ==
    1 + Cardinality({k \in (a + 1)..b : content[k] = "{"})
      - Cardinality({k \in (a + 1)..b : content[k] = "}"})

\* Offsets one past a closing brace at which the depth, 1 just behind the
\* body-open brace at offset open - 1, is back at 0.
ClosingOffsets(content, open) ==
    {e \in (open + 1)..Len(content) :
        content[e] = "}" /\ DepthAfter(content, open, e) = 0}

\* C19: with the body-open brace found, the result is the offset one past
\* the first closing brace that brings the depth, counted from 1, back to 0;
\* it is -1 when no body-open brace is found and when the depth never comes
\* back to 0.
C19_ClosingBrace ==
    pc = "scanned"
    => LET open == skipToOpeningBrace(existingTestContent, scanStart, 0,
                                      FALSE)
           closing == ClosingOffsets(existingTestContent, open)
       IN  IF open = -1 \/ closing = {} THEN scanEnd = -1
           ELSE /\ scanEnd \in closing
                /\ \A e \in closing : scanEnd <= e
                /\ existingTestContent[open] = "{"
                /\ existingTestContent[scanEnd] = "}"

\* C19 witness: the scan has passed a nested pair of braces and returned the
\* offset one past the brace that closes the body.
C19_Witness ==
    /\ pc = "scanned"
    /\ scanEnd # -1
    /\ \E k \in (scanStart + 1)..(scanEnd - 1) :
           /\ existingTestContent[k] = "}"
           /\ existingTestContent[k - 1] = "{"
           /\ k - 1 > skipToOpeningBrace(existingTestContent, scanStart,
                                         0, FALSE)

\* Offset of the parenthesis that closes the argument list opened by the
\* token at offset p, -1 when it is not closed.
ArgListClose(content, p) ==
    LET depth(q) == Cardinality({k \in (p + 1)..q :
                                     content[k] \in {"(", DESCRIBE}})
                        - Cardinality({k \in (p + 1)..q : content[k] = ")"})
        closers == {q \in (p + 1)..Len(content) :
                       content[q] = ")" /\ depth(q) = 0}
    IN  IF closers = {} THEN -1
        ELSE (CHOOSE q \in closers : \A q2 \in closers : q <= q2) - 1

\* C20: the body-open brace is accepted only as the first character that is
\* not whitespace after the parenthesis closing the argument list of the
\* group opened at scanStart; if that character is not an opening brace
\* the result is -1, so the result never reaches a brace that follows a later
\* parenthesised expression.
C20_OnlyOwnBody ==
    pc = "scanned"
    => LET close == ArgListClose(existingTestContent, scanStart)
           next == IF close = -1 THEN -1
                   ELSE skipWhitespace(existingTestContent, close + 1)
       IN  (close = -1 \/ charAt(existingTestContent, next) # "{")
           => scanEnd = -1

----------------------------------------------------------------------------
(* Further claims on findMatchingTestBlock, checked under SpecMatch.       *)

\* Text s holds needle, letter case ignored.
HoldsIgnoringCase(s, needle) ==
    \E k \in 0..(Len(s) - Len(needle)) :
        \A j \in 1..Len(needle) :
            toLowerToken(s[k + j]) = toLowerToken(needle[j])

\* The content of the block holds the name in a pair of equal quotes or
\* directly followed by "(".
CalledOrQuoted(block, name) ==
    \/ HoldsIgnoringCase(block.content, name \o << "(" >>)
    \/ HoldsIgnoringCase(block.content, << "'" >> \o name \o << "'" >>)
    \/ HoldsIgnoringCase(block.content, << "\"" >> \o name \o << "\"" >>)

\* The blocks that the content heuristic selects when it takes the name
\* directly preceded by ".".
HitsWithDotBefore ==
    {k \in 1..Len(parsedFile.testBlocks) :
        \/ CalledOrQuoted(parsedFile.testBlocks[k], testName)
        \/ HoldsIgnoringCase(parsedFile.testBlocks[k].content,
                             << "." >> \o testName)}

\* The blocks that the content heuristic selects when it takes the name
\* directly followed by ".".
HitsWithDotAfter ==
    {k \in 1..Len(parsedFile.testBlocks) :
        \/ CalledOrQuoted(parsedFile.testBlocks[k], testName)
        \/ HoldsIgnoringCase(parsedFile.testBlocks[k].content,
                             testName \o << "." >>)}

\* Rule 4 decides: no block satisfies rules 1 to 3 and the file has several
\* blocks, so that the fallback gives no match.
Rule4Decides ==
    /\ \A r \in 1..3 : RuleHits(r) = {}
    /\ Len(parsedFile.testBlocks) >= 2

\* C21 as stated: rule 4 selects a block exactly when its content holds,
\* letter case ignored, the test name followed by "(", or preceded by ".",
\* or in a pair of single or double quotes.
C21_ContentHeuristic_Original ==
    (pc = "matched" /\ Rule4Decides)
    => \A k \in 1..Len(parsedFile.testBlocks) :
           matchingBlock = parsedFile.testBlocks[k]
           <=> (k \in HitsWithDotBefore
                   /\ \A j \in HitsWithDotBefore : k <= j)

\* C21 as amended: rule 4 selects a block exactly when its content holds,
\* letter case ignored, the test name followed by "(", or followed by ".",
\* or in a pair of single or double quotes; the name preceded by "." alone
\* does not select.
C21_ContentHeuristicDotAfter ==
    (pc = "matched" /\ Rule4Decides)
    => /\ \A k \in 1..Len(parsedFile.testBlocks) :
              matchingBlock = parsedFile.testBlocks[k]
              <=> (k \in HitsWithDotAfter
                      /\ \A j \in HitsWithDotAfter : k <= j)
       /\ HitsWithDotAfter = {} <=> matchingBlock = undefinedBlock

\* C21 witness: rule 4 decides and selects a block whose content holds the
\* name followed by "." and neither called nor quoted.
C21_Witness ==
    /\ pc = "matched"
    /\ Rule4Decides
    /\ matchingBlock # undefinedBlock
    /\ ~CalledOrQuoted(matchingBlock, testName)
    /\ HoldsIgnoringCase(matchingBlock.content, testName \o << "." >>)

\* The texts that differ from s in letter case only.
CaseVariants(s) ==
    {v \in [1..Len(s) -> WordTokens] :
        \A k \in 1..Len(s) : toLowerToken(v[k]) = toLowerToken(s[k])}

\* C22: two targets whose feature and test name differ in letter case only
\* get the same block of any parsed file.
C22_CaseInsensitive ==
    pc = "matched"
    => \A f \in CaseVariants(feature), n \in CaseVariants(testName) :
           findMatchingTestBlock(parsedFile, f, n) = matchingBlock

\* C22 witness: a target written with capitals has got a block by its
\* labels in a file of several blocks.
C22_Witness ==
    /\ pc = "matched"
    /\ Len(parsedFile.testBlocks) >= 2
    /\ feature # toLowerCase(feature)
    /\ testName # toLowerCase(testName)
    /\ RuleHits(1) # {}
    /\ matchingBlock = FirstHit(1)

----------------------------------------------------------------------------
(* src/ai/testFileParser.ts: the labels parseTestFile derives from the     *)
(* title of a block.                                                       *)

TitleAlphabet == {"Order", "user", "Login", "search", "X", SP, "."}

\* The titles: absent, or a text of word tokens, blanks and dots.
Titles ==
    {undefined} \cup (SeqsUpTo(TitleAlphabet, MaxTitleLen) \ {EmptyString})

InitLabel ==
    /\ pc = "title"
    /\ describeTitle \in Titles
    /\ featureLabel = undefined
    /\ testLabel = undefined
    /\ feature = EmptyString
    /\ testName = EmptyString
    /\ existingTestContent = undefined
    /\ manualZoneContent = null
    /\ parsedFile = nullParsedFile
    /\ matchingBlock = undefinedBlock
    /\ useIncrementalUpdate = FALSE
    /\ llmOutput = undefined
    /\ updatedBlock = undefined
    /\ regenerated = undefined
    /\ testScript = undefined
    /\ written = undefined
    /\ MainIdle
    /\ ScanIdle
    /\ LoopIdle

\* const featureName = extractFeatureName(title);
\* const testName = extractTestName(title);
ExtractLabels ==
    /\ pc = "title"
    /\ featureLabel' = extractFeatureName(describeTitle)
    /\ testLabel' = extractTestName(describeTitle)
    /\ pc' = "labelled"
    /\ UNCHANGED describeTitle
    /\ UNCHANGED << feature, testName, existingTestContent, manualZoneContent,
                    parsedFile, matchingBlock, useIncrementalUpdate, llmOutput,
                    updatedBlock, regenerated, testScript, written >>
    /\ UNCHANGED mainVars
    /\ UNCHANGED scanVars
    /\ UNCHANGED loopVars

NextLabel == ExtractLabels

SpecLabel == InitLabel /\ [][NextLabel]_vars

----------------------------------------------------------------------------
(* Claim on extractFeatureName, checked under SpecLabel.                   *)

\* The label of the vocabulary for the first keyword, in the order order,
\* user, auth / login / logout, payment, that the title holds; undefined
\* when it holds none.
VocabularyLabel(t) ==
    LET has(w) == \E k \in 1..Len(t) : toLowerToken(t[k]) = w
    IN  IF has("order") THEN << "order" >>
        ELSE IF has("user") THEN << "user" >>
        ELSE IF has("auth") \/ has("login") \/ has("logout") THEN << "auth" >>
        ELSE IF has("payment") THEN << "payment" >>
        ELSE undefined

\* The first whitespace-delimited word of the title, in lower case.
FirstWordLower(t) ==
    LET s == trimStart(t)
        ends == {k \in 1..Len(s) : IsSpace(s[k])}
        e == IF ends = {} THEN Len(s)
             ELSE (CHOOSE k \in ends : \A j \in ends : k <= j) - 1
    IN  toLowerCase(SubSeq(s, 1, e))

\* C23: the feature label is the vocabulary label of a keyword the title
\* holds; without a keyword it is the first whitespace-delimited word of the
\* title in lower case, also when the title is a single word; it is unset
\* only when the title is absent.
C23_FeatureLabel ==
    pc = "labelled"
    => /\ describeTitle = undefined => featureLabel = undefined
       /\ describeTitle # undefined
          => featureLabel
                 = IF VocabularyLabel(describeTitle) # undefined
                   THEN VocabularyLabel(describeTitle)
                   ELSE FirstWordLower(describeTitle)

----------------------------------------------------------------------------
(* src/ai/generateTestScript.ts: generateTestBlock applied to an answer of *)
(* the generator.                                                          *)

AnswerAlphabet == {DESCRIBE, "(", ")", "{", "}", SP, "x", FENCE}

\* The answers LLMClient.generate may give to the prompt for one block.
BlockAnswers ==
    SeqsUpTo(AnswerAlphabet, MaxAnswerLen)
        \cup { DirectGroup, CallbackGroup, ScenarioC, ScenarioD, OuterInner,
               << FENCE, "typescript", NL >> \o DirectGroup \o << NL, FENCE >>,
               << IMPORT, SP, "x", NL >> \o DirectGroup \o << NL, "z" >>,
               << IMPORT, SP, "x", NL >> \o CallbackGroup \o << NL, "z" >> }

InitAnswer ==
    /\ pc = "answer"
    /\ llmOutput \in BlockAnswers
    /\ updatedBlock = undefined
    /\ feature = EmptyString
    /\ testName = EmptyString
    /\ existingTestContent = undefined
    /\ manualZoneContent = null
    /\ parsedFile = nullParsedFile
    /\ matchingBlock = undefinedBlock
    /\ useIncrementalUpdate = TRUE
    /\ regenerated = undefined
    /\ testScript = undefined
    /\ written = undefined
    /\ MainIdle
    /\ ScanIdle
    /\ LabelIdle
    /\ LoopIdle

\* const updatedBlock = await generateTestBlock(...)
GenerateTestBlock ==
    /\ pc = "answer"
    /\ updatedBlock' = generateTestBlock(llmOutput)
    /\ pc' = "block"
    /\ UNCHANGED << feature, testName, existingTestContent, manualZoneContent,
                    parsedFile, matchingBlock, useIncrementalUpdate, llmOutput,
                    regenerated, testScript, written >>
    /\ UNCHANGED mainVars
    /\ UNCHANGED scanVars
    /\ UNCHANGED labelVars
    /\ UNCHANGED loopVars

NextAnswer == GenerateTestBlock

SpecAnswer == InitAnswer /\ [][NextAnswer]_vars

----------------------------------------------------------------------------
(* Claims on generateTestBlock, checked under SpecAnswer.                  *)

\* The cleaned answer from its first group-opening token on; the empty text
\* when it holds no such token.
FromFirstGroup(answer) ==
    LET c == cleanMarkdown(answer)
        ds == DescribeOffsets(c)
    IN  IF ds = {} THEN EmptyString
        ELSE SubSeq(c, (CHOOSE d \in ds : \A d2 \in ds : d <= d2) + 1, Len(c))

\* The positions of text t, which starts with the group-opening token, of
\* the closing braces that close as many braces as were opened before.
GroupEnds(t) ==
    {e \in 1..Len(t) :
        /\ t[e] = "}"
        /\ Cardinality({k \in 1..e : t[k] = "{"})
               = Cardinality({k \in 1..e : t[k] = "}"})}

\* C24: when the cleaned answer holds the group-opening token, the block
\* returned starts with its first occurrence, what stands before it being
\* discarded, and is the text from there to the brace that ends the group,
\* unchanged (to the end of the answer when no brace ends the group).
C24_ReplacementNormalised ==
    (pc = "block" /\ FromFirstGroup(llmOutput) # EmptyString)
    => LET t == FromFirstGroup(llmOutput)
       IN  /\ updatedBlock[1] = DESCRIBE
           /\ IF GroupEnds(t) = {} THEN updatedBlock = trimEnd(t)
              ELSE updatedBlock
                       = SubSeq(t, 1, CHOOSE e \in GroupEnds(t) :
                                          \A e2 \in GroupEnds(t) : e <= e2)

\* C24 witness: an answer with text in front of the group and behind it has
\* been reduced to the group.
C24_Witness ==
    /\ pc = "block"
    /\ cleanMarkdown(llmOutput)[1] # DESCRIBE
    /\ GroupEnds(FromFirstGroup(llmOutput)) # {}
    /\ Len(updatedBlock) < Len(FromFirstGroup(llmOutput))
    /\ updatedBlock[1] = DESCRIBE
    /\ updatedBlock[Len(updatedBlock)] = "}"

----------------------------------------------------------------------------
(* Claims on the place and the round trip of the re-injected zone, checked *)
(* under SpecGuard.                                                        *)

\* Length of the longest of the lines.
MaxLineLen(lines) ==
    IF Len(lines) = 0 THEN 0
    ELSE CHOOSE n \in {Len(lines[k]) : k \in 1..Len(lines)} :
             \A k \in 1..Len(lines) : Len(lines[k]) <= n

\* Number of tokens c on the lines j..k of lines.
CountOnLines(lines, j, k, c) ==
    Cardinality({<< n, m >> \in (j..k) \X (1..MaxLineLen(lines)) :
                    m <= Len(lines[n]) /\ lines[n][m] = c})

\* The lines of import statements: a line that begins with the word import,
\* indented or not, and the lines that follow one while a brace it opened
\* is not closed.
ImportLines(lines) ==
    {k \in 1..Len(lines) :
        \E j \in 1..k :
            /\ trimStart(lines[j]) # EmptyString
            /\ trimStart(lines[j])[1] = IMPORT
            /\ \A n \in j..(k - 1) :
                   CountOnLines(lines, j, n, "{") > CountOnLines(lines, j, n, "}")}

\* The lines of code outside the header: neither blank, nor a comment, nor
\* a line of an import statement.
CodeLines(lines) ==
    {k \in 1..Len(lines) :
        /\ trimStart(lines[k]) # EmptyString
        /\ trimStart(lines[k])[1] \notin {LINE_COMMENT, TS_NOCHECK}
        /\ k \notin ImportLines(lines)}

\* C25: on re-injection no line of an import statement, the continuation
\* lines of a multi-line import included, comes after the injected zone
\* unless a line of code outside the header precedes the zone.
C25_ZoneAfterHeader ==
    (pc = "guarded" /\ Reinjects)
    => LET lines == split(regenerated)
       IN  \E k \in 0..Len(lines) :
               /\ testScript = InjectedAt(k)
               /\ (\E j \in (k + 1)..Len(lines) : j \in ImportLines(lines))
                  => (\E i \in 1..k : i \in CodeLines(lines))

\* C26: when a non-empty payload is re-injected into a regenerated text
\* without start marker, extractManualZone applied to the result returns
\* the payload again, also when the regenerated text holds an end marker.
C26_ZoneRoundTrip ==
    (pc = "guarded" /\ Reinjects)
    => extractManualZone(testScript) = manualZoneContent

----------------------------------------------------------------------------
(* Claim on the start marker in the file written by createTestFile,        *)
(* checked under Spec.                                                     *)

\* C27: when extractManualZone returned a non-empty payload from the old
\* file, the text createTestFile writes holds the start marker, whatever
\* the generator answered, after a splice and after a whole-file
\* regeneration.
C27_MarkerPresent ==
    (/\ pc \in {"write", "done"}
     /\ existingTestContent # undefined
     /\ manualZoneContent # null
     /\ manualZoneContent # EmptyString)
    => /\ includes(testScript, << MANUAL_START >>)
       /\ pc = "done" => includes(written, << MANUAL_START >>)

\* C27 witness: a splice removed the start marker from a file with a
\* non-empty zone, and the file written holds the marker.
C27_Witness ==
    /\ pc = "done"
    /\ manualZoneContent # null
    /\ manualZoneContent # EmptyString
    /\ Spliced
    /\ ~includes(regenerated, << MANUAL_START >>)
    /\ includes(written, << MANUAL_START >>)

----------------------------------------------------------------------------
(* Claim on the two block-end scanners, checked under SpecAnswer.          *)

\* C28: for a cleaned answer that starts with the group-opening token, the
\* offset at which generateTestBlock truncates it equals the offset
\* findMatchingClosingBrace returns for it at start index 0, and
\* parseTestFile parses the block returned as exactly one block that covers
\* it as a whole.
C28_ScannersAgree ==
    (/\ pc = "block"
     /\ cleanMarkdown(llmOutput) # EmptyString
     /\ cleanMarkdown(llmOutput)[1] = DESCRIBE)
    => LET t == cleanMarkdown(llmOutput)
           blocks == parseTestFile(updatedBlock).testBlocks
       IN  /\ blockEndIndex(t, 0, FALSE, 0) = findMatchingClosingBrace(t, 0)
           /\ Len(blocks) = 1
           /\ blocks[1].startIndex = 0
           /\ blocks[1].endIndex = Len(updatedBlock)
           /\ blocks[1].content = updatedBlock

----------------------------------------------------------------------------
(* SpecReparse: replaceTestBlock applied to a block of a parsed file and a *)
(* replacement that parseTestFile parses as one block.                     *)

\* A comment that quotes the group-opening token, then one group.
QuotedTokenFile ==
    << LINE_COMMENT, SP, DESCRIBE, NL >> \o DirectGroup \o << NL >>

\* A replacement whose body holds an unpaired closing parenthesis followed
\* by a brace pair: test.describe() { ')' { } }
UnpairedParenBlock == << DESCRIBE, ")", SP, "{", ")", SP, "{", "}", "}" >>

ReparseFiles ==
    UNION {{Concat([j \in 1..k |-> bs[j] \o << NL >>]) :
               bs \in [1..k -> {DirectGroup, GroupOf(<< "user" >>, << "z" >>)}]}
           : k \in 1..MaxGroups}
        \cup {GappedFile, QuotedTokenFile}

ReplAlphabet == {DESCRIBE, ")", "{", "}", "x"}

\* The replacements that parseTestFile parses as exactly one block.
OneBlockTexts ==
    {t \in SeqsUpTo(ReplAlphabet, MaxReplLen) \cup {UnpairedParenBlock} :
        Len(parseTestFile(t).testBlocks) = 1}

InitReparse ==
    /\ pc = "matched"
    /\ existingTestContent \in ReparseFiles
    /\ parsedFile = parseTestFile(existingTestContent)
    /\ \E i \in 1..Len(parsedFile.testBlocks) :
          matchingBlock = parsedFile.testBlocks[i]
    /\ updatedBlock \in OneBlockTexts
    /\ feature = EmptyString
    /\ testName = EmptyString
    /\ manualZoneContent = null
    /\ useIncrementalUpdate = TRUE
    /\ llmOutput = undefined
    /\ regenerated = undefined
    /\ testScript = undefined
    /\ written = undefined
    /\ MainIdle
    /\ ScanIdle
    /\ LabelIdle
    /\ LoopIdle

NextReparse == ReplaceBlock

SpecReparse == InitReparse /\ [][NextReparse]_vars

----------------------------------------------------------------------------
(* Claim on the blocks around a splice, checked under SpecReparse.         *)

\* The position of the replaced block among the blocks of the parsed file.
ReplacedIndex ==
    CHOOSE i \in 1..Len(parsedFile.testBlocks) :
        parsedFile.testBlocks[i] = matchingBlock

\* C29: after a block of the parsed file is replaced by a text that
\* parseTestFile parses as exactly one block, parseTestFile of the result
\* has as many blocks as before, the block at the replaced position has the
\* replacement as content, and every other block has the content it had,
\* in the same order.
C29_SplicePreservesBlocks ==
    pc = "replaced"
    => LET old == parsedFile.testBlocks
           new == parseTestFile(regenerated).testBlocks
       IN  /\ Len(new) = Len(old)
           /\ new[ReplacedIndex].content = updatedBlock
           /\ \A j \in 1..Len(old) :
                  j # ReplacedIndex => new[j].content = old[j].content

----------------------------------------------------------------------------
(* SpecLoop: parseTestFile run iteration by iteration, the two loops of    *)
(* findMatchingClosingBrace included (src/ai/testFileParser.ts).           *)

LoopInputs ==
    SeqsUpTo(ParseAlphabet, MaxLoopLen)
        \cup UNION {GroupTexts(k) : k \in 0..MaxGroups}
        \cup {ScenarioC, OuterInner, StrayClose, GappedFile}

InitLoop ==
    /\ pc = "input"
    /\ existingTestContent \in LoopInputs
    /\ feature = EmptyString
    /\ testName = EmptyString
    /\ manualZoneContent = null
    /\ parsedFile = nullParsedFile
    /\ matchingBlock = undefinedBlock
    /\ useIncrementalUpdate = FALSE
    /\ llmOutput = undefined
    /\ updatedBlock = undefined
    /\ regenerated = undefined
    /\ testScript = undefined
    /\ written = undefined
    /\ MainIdle
    /\ ScanIdle
    /\ LabelIdle
    /\ loopPc = "loop"
    /\ loopCursor = 0
    /\ loopInToken = FALSE
    /\ loopMatch = -1
    /\ loopBlocks = << >>
    /\ scanIndex = 0
    /\ scanParens = 0
    /\ scanSawParen = FALSE
    /\ scanBraces = 0

\* The variables no step of the loop changes.
LoopFrame ==
    /\ UNCHANGED << feature, testName, existingTestContent, manualZoneContent,
                    matchingBlock, useIncrementalUpdate, llmOutput,
                    updatedBlock, regenerated, testScript, written >>
    /\ UNCHANGED mainVars
    /\ UNCHANGED scanVars
    /\ UNCHANGED labelVars

\* header, footer and the returned record, from the blocks found
parsedFrom(content, testBlocks) ==
    LET n == Len(testBlocks)
        headerEnd == IF n > 0 THEN testBlocks[1].startIndex ELSE 0
        footerStart == IF n > 0 THEN testBlocks[n].endIndex ELSE Len(content)
        header == IF n > 0 /\ headerEnd > 0
                  THEN substring(content, 0, headerEnd) ELSE EmptyString
        footer == IF n > 0 /\ footerStart < Len(content)
                  THEN substringFrom(content, footerStart) ELSE EmptyString
    IN  [header |-> trim(header), testBlocks |-> testBlocks,
         footer |-> trim(footer)]

\* i < content.length: one character into an occurrence, i is in front of
\* the end of the text.
LoopCondition == loopInToken \/ loopCursor < Len(existingTestContent)

\* while (i < content.length) is false: the record is returned
LoopExit ==
    /\ loopPc = "loop"
    /\ ~LoopCondition
    /\ parsedFile' = parsedFrom(existingTestContent, loopBlocks)
    /\ loopPc' = "done"
    /\ pc' = "parsed"
    /\ UNCHANGED << loopCursor, loopInToken, loopMatch, loopBlocks, scanIndex,
                    scanParens, scanSawParen, scanBraces >>
    /\ LoopFrame

\* if (describeMatch === -1) break, then the record is returned
LoopBreak ==
    /\ loopPc = "loop"
    /\ LoopCondition
    /\ indexOf(existingTestContent, DESCRIBE, loopCursor) = -1
    /\ loopMatch' = -1
    /\ parsedFile' = parsedFrom(existingTestContent, loopBlocks)
    /\ loopPc' = "done"
    /\ pc' = "parsed"
    /\ UNCHANGED << loopCursor, loopInToken, loopBlocks, scanIndex,
                    scanParens, scanSawParen, scanBraces >>
    /\ LoopFrame

\* braceDepth !== 0: i = describeMatch + 1
LoopSkipNested ==
    /\ loopPc = "loop"
    /\ LoopCondition
    /\ LET describeMatch == indexOf(existingTestContent, DESCRIBE, loopCursor)
       IN  /\ describeMatch # -1
           /\ braceDepthBefore(existingTestContent, describeMatch) # 0
           /\ loopMatch' = describeMatch
           /\ loopCursor' = describeMatch + 1
           /\ loopInToken' = TRUE
    /\ UNCHANGED << pc, parsedFile, loopPc, loopBlocks, scanIndex, scanParens,
                    scanSawParen, scanBraces >>
    /\ LoopFrame

\* braceDepth === 0: findMatchingClosingBrace(content, describeMatch) starts
LoopCallScanner ==
    /\ loopPc = "loop"
    /\ LoopCondition
    /\ LET describeMatch == indexOf(existingTestContent, DESCRIBE, loopCursor)
       IN  /\ describeMatch # -1
           /\ braceDepthBefore(existingTestContent, describeMatch) = 0
           /\ loopMatch' = describeMatch
           /\ scanIndex' = describeMatch
    /\ scanParens' = 0
    /\ scanSawParen' = FALSE
    /\ scanBraces' = 0
    /\ loopPc' = "opening"
    /\ UNCHANGED << pc, parsedFile, loopCursor, loopInToken, loopBlocks >>
    /\ LoopFrame

\* One iteration of the first loop of findMatchingClosingBrace.
SkipToOpeningBrace ==
    /\ loopPc = "opening"
    /\ scanIndex < Len(existingTestContent)
    /\ LET c == existingTestContent[scanIndex + 1]
           j == skipWhitespace(existingTestContent, scanIndex + 1)
       IN  IF c \in {"(", DESCRIBE}
           THEN /\ scanParens' = scanParens + 1
                /\ scanSawParen' = TRUE
                /\ scanIndex' = scanIndex + 1
                /\ UNCHANGED << scanBraces, loopPc >>
           ELSE IF c = ")"
           THEN /\ UNCHANGED scanSawParen
                /\ IF scanParens - 1 = 0 /\ scanSawParen
                   THEN IF charAt(existingTestContent, j) = "{"
                        THEN /\ scanParens' = 0
                             /\ scanBraces' = 1
                             /\ scanIndex' = j + 1
                             /\ loopPc' = "closing"
                        ELSE /\ scanParens' =
                                    IF charAt(existingTestContent, j) = DESCRIBE
                                    THEN 1 ELSE 0
                             /\ scanIndex' = j + 1
                             /\ UNCHANGED << scanBraces, loopPc >>
                   ELSE /\ scanParens' = scanParens - 1
                        /\ scanIndex' = scanIndex + 1
                        /\ UNCHANGED << scanBraces, loopPc >>
           ELSE /\ scanIndex' = scanIndex + 1
                /\ UNCHANGED << scanParens, scanSawParen, scanBraces, loopPc >>
    /\ UNCHANGED << pc, parsedFile, loopCursor, loopInToken, loopMatch,
                    loopBlocks >>
    /\ LoopFrame

\* Mutant: after a failed scan the cursor goes back to the occurrence.
OpeningNotFound_Retry ==
    /\ loopPc = "opening"
    /\ ~(scanIndex < Len(existingTestContent))
    /\ loopCursor' = loopMatch
    /\ loopInToken' = FALSE
    /\ loopPc' = "loop"
    /\ UNCHANGED << pc, parsedFile, loopMatch, loopBlocks, scanIndex,
                    scanParens, scanSawParen, scanBraces >>
    /\ LoopFrame

\* The first loop ends without opening brace: -1 is returned, blockEnd >
\* blockStart is false, i = describeMatch + 1
OpeningNotFound ==
    /\ loopPc = "opening"
    /\ ~(scanIndex < Len(existingTestContent))
    /\ loopCursor' = loopMatch + 1
    /\ loopInToken' = TRUE
    /\ loopPc' = "loop"
    /\ UNCHANGED << pc, parsedFile, loopMatch, loopBlocks, scanIndex,
                    scanParens, scanSawParen, scanBraces >>
    /\ LoopFrame

\* One iteration of the second loop of findMatchingClosingBrace; on the
\* closing brace i + 1 is returned, the block is pushed and i = blockEnd.
FindClosingBraceStep ==
    /\ loopPc = "closing"
    /\ scanIndex < Len(existingTestContent)
    /\ LET c == existingTestContent[scanIndex + 1]
       IN  IF c = "{"
           THEN /\ scanBraces' = scanBraces + 1
                /\ scanIndex' = scanIndex + 1
                /\ UNCHANGED << loopPc, loopCursor, loopInToken, loopBlocks >>
           ELSE IF c = "}"
           THEN /\ scanBraces' = scanBraces - 1
                /\ IF scanBraces - 1 = 0
                   THEN /\ UNCHANGED scanIndex
                        /\ loopPc' = "loop"
                        /\ IF scanIndex + 1 > loopMatch
                           THEN /\ loopBlocks' =
                                       Append(loopBlocks,
                                              TestBlock(existingTestContent,
                                                        loopMatch,
                                                        scanIndex + 1))
                                /\ loopCursor' = scanIndex + 1
                                /\ loopInToken' = FALSE
                           ELSE /\ loopCursor' = loopMatch + 1
                                /\ loopInToken' = TRUE
                                /\ UNCHANGED loopBlocks
                   ELSE /\ scanIndex' = scanIndex + 1
                        /\ UNCHANGED << loopPc, loopCursor, loopInToken,
                                        loopBlocks >>
           ELSE /\ scanIndex' = scanIndex + 1
                /\ UNCHANGED << scanBraces, loopPc, loopCursor, loopInToken,
                                loopBlocks >>
    /\ UNCHANGED << pc, parsedFile, loopMatch, scanParens, scanSawParen >>
    /\ LoopFrame

\* The second loop ends without closing brace: -1 is returned,
\* i = describeMatch + 1
ClosingNotFound ==
    /\ loopPc = "closing"
    /\ ~(scanIndex < Len(existingTestContent))
    /\ loopCursor' = loopMatch + 1
    /\ loopInToken' = TRUE
    /\ loopPc' = "loop"
    /\ UNCHANGED << pc, parsedFile, loopMatch, loopBlocks, scanIndex,
                    scanParens, scanSawParen, scanBraces >>
    /\ LoopFrame

NextLoop ==
    \/ LoopExit
    \/ LoopBreak
    \/ LoopSkipNested
    \/ LoopCallScanner
    \/ SkipToOpeningBrace
    \/ OpeningNotFound
    \/ FindClosingBraceStep
    \/ ClosingNotFound

SpecLoop == InitLoop /\ [][NextLoop]_vars

\* The call runs on: a synchronous function is not suspended for ever
\* while it has a next step.
SpecLoopFair == SpecLoop /\ WF_vars(NextLoop)

----------------------------------------------------------------------------
(* Claims on the termination of parseTestFile, checked under SpecLoopFair. *)

\* A step that completes an iteration of the scan loop of parseTestFile.
IterationEnds == loopPc \in {"loop", "opening", "closing"} /\ loopPc' = "loop"

\* A step inside one of the two loops of findMatchingClosingBrace.
ScannerStep ==
    loopPc \in {"opening", "closing"} /\ loopPc' \in {"opening", "closing"}

\* Every iteration strictly advances the cursor, to the end of the block
\* pushed, which is greater than the occurrence offset, or to one past the
\* occurrence; every scanner step strictly advances its index.
Advances ==
    /\ IterationEnds
       => /\ loopCursor' > loopCursor
          /\ loopMatch' >= loopCursor
          /\ \/ loopCursor' = loopMatch' + 1
             \/ /\ Len(loopBlocks') = Len(loopBlocks) + 1
                /\ loopCursor' = loopBlocks'[Len(loopBlocks')].endIndex
                /\ loopCursor' > loopMatch'
    /\ ScannerStep => scanIndex' > scanIndex

\* C30: parseTestFile terminates on every input: each iteration of its scan
\* loop strictly advances the cursor, to the block end, which is greater
\* than the occurrence offset, or to one past the occurrence, each step of
\* findMatchingClosingBrace strictly advances its index in both phases,
\* and the call eventually returns.
C30_Terminates == [][Advances]_vars /\ <>(loopPc = "done")

\* C30 witness: the call has returned with a block found, the cursor having
\* moved on past the end of the first block.
C30_Witness ==
    /\ loopPc = "done"
    /\ Len(loopBlocks) >= 1
    /\ loopCursor > loopBlocks[1].endIndex
    /\ parsedFile = parseTestFile(existingTestContent)

\* The stepwise run returns what parseTestFile returns.
LoopAgreesWithParse ==
    loopPc = "done" => parsedFile = parseTestFile(existingTestContent)

============================================================================
